---- MODULE Spec2Model ----
(***************************************************************************)
(* abac_helper: access rules (src/app/utils/access_manager.py), their      *)
(* validation (src/app/utils/validators.py, src/app/pages/1_Group_Access), *)
(* the access summary and the generated row filter (pages 3 and 4), the    *)
(* audit writer (src/app/utils/audit_logger.py) and the tag operations     *)
(* (src/app/utils/tag_manager.py, src/app/utils/rls_abac_manager.py).      *)
(*                                                                         *)
(* Text is a sequence of one-character strings.  A nullable value is       *)
(* None (SQL NULL, Python None) or Some(v).  Dates are day numbers.        *)
(* A SQL condition evaluates to "T", "F" or "U" (unknown); a WHERE clause  *)
(* keeps the rows whose condition is "T".                                  *)
(***************************************************************************)
EXTENDS Integers, Sequences, FiniteSets, TLC

VARIABLES
    rules,          \* rows of the access table
    nextId,         \* next value of the id identity column
    today,          \* CURRENT_DATE() / date.today()
    table_tags,     \* table tags of the catalog: [tbl, tag_name, tag_value]
    column_tags,    \* column tags: [tbl, column, tag_name, tag_value]
    result,         \* what the last operation gave its caller
    calls,          \* the warehouse calls the last operation issued after its admin check
    audit_written,  \* the audit rows the last operation inserted
    args,           \* the arguments of a call of a function that changes nothing
    ret,            \* None before that call, Some(what it returned) after it
    metadata,       \* what the information_schema views show: tags, tables, columns
    user,           \* the email in the headers of the request being served
    inflight,       \* per operator: the audit row its running operation has yet to write
    page            \* what the last run of a page script left on the screen

vars == <<rules, nextId, today, table_tags, column_tags, result, calls, audit_written,
          args, ret, metadata, user, inflight, page>>

\* The tables of the app, the tags it sets and the outcome of its last operation.
store == <<rules, nextId, today, table_tags, column_tags, result, calls, audit_written>>
\* The call of a read-only function and the metadata it reads.
reads == <<args, ret, metadata>>
\* The operators' sessions.
sessions == <<user, inflight, page>>

-----------------------------------------------------------------------------
(* Bounds *)

MaxDay == 2         \* today ranges over 1..MaxDay
MaxRules == 1       \* rules ever added while warehouse calls may fail
MaxAccessRules == 2 \* rules ever added when evaluating access
MaxPlan == 2        \* longest list of actions given to apply_propagation

-----------------------------------------------------------------------------
(* Nullable values and three-valued SQL logic *)

None == <<>>
Some(v) == <<v>>
IsNull(x) == x = <<>>
Val(x) == x[1]

SqlBool(b) == IF b THEN "T" ELSE "F"
SqlNot(a) == IF a = "U" THEN "U" ELSE IF a = "T" THEN "F" ELSE "T"
SqlAnd(a, b) ==
    IF a = "F" \/ b = "F" THEN "F"
    ELSE IF a = "T" /\ b = "T" THEN "T" ELSE "U"
SqlOr(a, b) ==
    IF a = "T" \/ b = "T" THEN "T"
    ELSE IF a = "F" /\ b = "F" THEN "F" ELSE "U"
SqlIsNull(x) == SqlBool(IsNull(x))
\* x <= y and x > y over nullable dates
SqlLe(x, y) == IF IsNull(x) \/ IsNull(y) THEN "U" ELSE SqlBool(Val(x) <= Val(y))
SqlGt(x, y) == IF IsNull(x) \/ IsNull(y) THEN "U" ELSE SqlBool(Val(x) > Val(y))
\* array_contains(arr, v): NULL for a NULL array
array_contains(arr, v) ==
    IF IsNull(arr) THEN "U"
    ELSE SqlBool(\E i \in 1..Len(Val(arr)) : Val(arr)[i] = v)

-----------------------------------------------------------------------------
(* Text helpers: str.strip, str.split, int *)

Digits == {"0", "1", "2", "3", "4", "5", "6", "7", "8", "9"}

RECURSIVE LStrip(_)
LStrip(s) == IF s # <<>> /\ Head(s) = " " THEN LStrip(Tail(s)) ELSE s

RECURSIVE RStrip(_)
RStrip(s) ==
    IF s # <<>> /\ s[Len(s)] = " " THEN RStrip(SubSeq(s, 1, Len(s) - 1)) ELSE s

Strip(s) == RStrip(LStrip(s))

Contains(s, c) == \E i \in 1..Len(s) : s[i] = c
FirstIndex(s, c) == CHOOSE i \in 1..Len(s) : s[i] = c /\ \A j \in 1..(i - 1) : s[j] # c

\* s.split(c): every piece between separators, at least one piece
RECURSIVE Split(_, _)
Split(s, c) ==
    IF ~Contains(s, c) THEN <<s>>
    ELSE LET i == FirstIndex(s, c)
         IN  <<SubSeq(s, 1, i - 1)>> \o Split(SubSeq(s, i + 1, Len(s)), c)

\* s.split(c, maxsplit=1) of a text that contains c
SplitOnce(s, c) ==
    LET i == FirstIndex(s, c)
    IN  <<SubSeq(s, 1, i - 1), SubSeq(s, i + 1, Len(s))>>

RECURSIVE DigitsValue(_)
DigitsValue(s) ==
    IF s = <<>> THEN 0
    ELSE LET c == s[Len(s)]
             d == CASE c = "0" -> 0 [] c = "1" -> 1 [] c = "2" -> 2 [] c = "3" -> 3
                    [] c = "4" -> 4 [] c = "5" -> 5 [] c = "6" -> 6 [] c = "7" -> 7
                    [] c = "8" -> 8 [] OTHER -> 9
         IN  10 * DigitsValue(SubSeq(s, 1, Len(s) - 1)) + d

IsDigits(s) == s # <<>> /\ \A i \in 1..Len(s) : s[i] \in Digits

\* int(s): surrounding blanks ignored, one optional sign, then digits (the texts
\* here hold no underscore and no digit outside 0-9)
IntBody(s) ==
    LET t == Strip(s)
    IN  IF t # <<>> /\ t[1] \in {"-", "+"} THEN Tail(t) ELSE t
IntValid(s) == IsDigits(IntBody(s))
IntValue(s) ==
    LET t == Strip(s)
    IN  IF t[1] = "-" THEN 0 - DigitsValue(IntBody(s)) ELSE DigitsValue(IntBody(s))

\* sorted(set(...)) of a set of integers
RECURSIVE SortedSeq(_)
SortedSeq(S) ==
    IF S = {} THEN <<>>
    ELSE LET m == CHOOSE x \in S : \A y \in S : x <= y
         IN  <<m>> \o SortedSeq(S \ {m})

SeqToSet(s) == {s[i] : i \in 1..Len(s)}

\* str(n)
DigitChar(d) ==
    CASE d = 0 -> "0" [] d = 1 -> "1" [] d = 2 -> "2" [] d = 3 -> "3" [] d = 4 -> "4"
      [] d = 5 -> "5" [] d = 6 -> "6" [] d = 7 -> "7" [] d = 8 -> "8" [] OTHER -> "9"
RECURSIVE Str(_)
Str(n) ==
    IF n < 0 THEN <<"-">> \o Str(0 - n)
    ELSE IF n < 10 THEN <<DigitChar(n)>> ELSE Str(n \div 10) \o <<DigitChar(n % 10)>>

-----------------------------------------------------------------------------
(* validators.py *)

\* _IDENTIFIER_PATTERN = ^[A-Za-z_][A-Za-z0-9_]*$ ; re.match, where $ also matches
\* just before a newline that ends the text.
Letters == {"a", "b", "c", "k", "p", "s", "t", "u", "v", "w"}
IdentifierStart(c) == c \in Letters \cup {"_"}
IdentifierChar(c) == c \in Letters \cup Digits \cup {"_"}
validate_identifier(value) ==
    LET body == IF value # <<>> /\ value[Len(value)] = "\n"
                THEN SubSeq(value, 1, Len(value) - 1) ELSE value
    IN  /\ body # <<>>
        /\ IdentifierStart(body[1])
        /\ \A i \in 2..Len(body) : IdentifierChar(body[i])

\* Variant of ParsePart whose ranges stop one short of their end, so that a
\* range with end < start names no id instead of failing.
ParsePart_EndExclusive(part) ==
    IF Contains(part, "-")
    THEN LET sp == SplitOnce(part, "-")
         IN  IF ~IntValid(sp[1])
             THEN [valid |-> FALSE, value |-> <<"Invalid customer ID format", Strip(sp[1])>>]
             ELSE IF ~IntValid(sp[2])
             THEN [valid |-> FALSE, value |-> <<"Invalid customer ID format", Strip(sp[2])>>]
             ELSE [valid |-> TRUE, value |-> IntValue(sp[1])..(IntValue(sp[2]) - 1)]
    ELSE IF ~IntValid(part) THEN [valid |-> FALSE, value |-> <<"Invalid customer ID format", part>>]
         ELSE [valid |-> TRUE, value |-> {IntValue(part)}]

\* One token of the id expression, already stripped and non-empty:
\* the integers it names, or the error that ends the parse.
ParsePart(part) ==
    IF Contains(part, "-")
    THEN LET sp == SplitOnce(part, "-")
         IN  IF ~IntValid(sp[1])
             THEN [valid |-> FALSE, value |-> <<"Invalid customer ID format", Strip(sp[1])>>]
             ELSE IF ~IntValid(sp[2])
             THEN [valid |-> FALSE, value |-> <<"Invalid customer ID format", Strip(sp[2])>>]
             ELSE IF IntValue(sp[2]) < IntValue(sp[1])
                  THEN [valid |-> FALSE, value |-> <<"Invalid range", part>>]
             ELSE [valid |-> TRUE, value |-> IntValue(sp[1])..IntValue(sp[2])]
    ELSE IF ~IntValid(part) THEN [valid |-> FALSE, value |-> <<"Invalid customer ID format", part>>]
         ELSE [valid |-> TRUE, value |-> {IntValue(part)}]

\* Variant of ParseParts that leaves a token out when it fails and goes on.
RECURSIVE ParseParts_SkipsBadTokens(_, _)
ParseParts_SkipsBadTokens(parts, ids) ==
    IF parts = <<>> THEN [valid |-> TRUE, value |-> SortedSeq(ids)]
    ELSE LET part == Strip(Head(parts))
         IN  IF part = <<>> THEN ParseParts_SkipsBadTokens(Tail(parts), ids)
             ELSE LET p == ParsePart(part)
                  IN  IF ~p.valid THEN ParseParts_SkipsBadTokens(Tail(parts), ids)
                      ELSE ParseParts_SkipsBadTokens(Tail(parts), ids \cup p.value)

\* The loop over the comma-separated parts: the ids gathered so far, or the
\* first error met.
RECURSIVE ParseParts(_, _)
ParseParts(parts, ids) ==
    IF parts = <<>> THEN [valid |-> TRUE, value |-> SortedSeq(ids)]
    ELSE LET part == Strip(Head(parts))
         IN  IF part = <<>> THEN ParseParts(Tail(parts), ids)
             ELSE LET p == ParsePart(part)
                  IN  IF ~p.valid THEN p
                      ELSE ParseParts(Tail(parts), ids \cup p.value)

parse_customer_ids(customer_ids_str) ==
    IF customer_ids_str = <<>> \/ Strip(customer_ids_str) = <<>>
    THEN [valid |-> TRUE, value |-> <<>>]
    ELSE ParseParts(Split(customer_ids_str, ","), {})

\* Variant of validate_dates that accepts an expiration on the effective date.
validate_dates_SameDayAllowed(effective_date, expiration_date) ==
    IF ~IsNull(expiration_date) /\ Val(expiration_date) < effective_date
    THEN [valid |-> FALSE, value |-> "Expiration date must be after effective date."]
    ELSE [valid |-> TRUE, value |-> None]

validate_dates(effective_date, expiration_date) ==
    IF ~IsNull(expiration_date) /\ Val(expiration_date) <= effective_date
    THEN [valid |-> FALSE, value |-> "Expiration date must be after effective date."]
    ELSE [valid |-> TRUE, value |-> None]

normalize_customer_ids(values) == SortedSeq(SeqToSet(values))

-----------------------------------------------------------------------------
(* db_connection.py and audit_logger.py *)

\* Which execute_update call of an operation the warehouse fails:
\* none, the operation's own statement, or the audit INSERT.
Faults == {"none", "primary", "audit"}

\* One execute_update call: the statement and whether it ran (it raises otherwise).
Call(stmt, ok) == [stmt |-> stmt, ok |-> ok]

\* log_action: one INSERT into the audit table through execute_update.
log_action(action_type, object_type, object_name, fault) ==
    IF fault = "audit"
    THEN [raised |-> TRUE, calls |-> <<Call("AUDIT", FALSE)>>, rows |-> <<>>]
    ELSE [raised |-> FALSE, calls |-> <<Call("AUDIT", TRUE)>>,
          rows |-> <<[action_type |-> action_type, object_type |-> object_type,
                      object_name |-> object_name]>>]

-----------------------------------------------------------------------------
(* access_manager.py *)


\* Variant of UpdateThenLog that writes the audit row before the statement.
UpdateThenLog_LogFirst(stmt, action_type, object_name, fault) ==
    LET log == log_action(action_type, "GROUP_ACCESS", object_name, fault)
    IN  IF log.raised
        THEN [result |-> "raise", committed |-> FALSE, calls |-> log.calls, rows |-> <<>>]
        ELSE [result |-> IF fault = "primary" THEN "raise" ELSE "ok",
              committed |-> fault # "primary",
              calls |-> log.calls \o <<Call(stmt, fault # "primary")>>, rows |-> log.rows]

\* The tail shared by add, update and expire:
\*     execute_update(query, params); log_action(...); return True
\* with no try around either call.
UpdateThenLog(stmt, action_type, object_name, fault) ==
    IF fault = "primary"
    THEN [result |-> "raise", committed |-> FALSE,
          calls |-> <<Call(stmt, FALSE)>>, rows |-> <<>>]
    ELSE LET log == log_action(action_type, "GROUP_ACCESS", object_name, fault)
         IN  [result |-> IF log.raised THEN "raise" ELSE "ok", committed |-> TRUE,
              calls |-> <<Call(stmt, TRUE)>> \o log.calls, rows |-> log.rows]

\* array(...) of the normalized ids, or NULL when there are none
CustomerIdsArray(customer_ids) ==
    LET normalized_ids == normalize_customer_ids(customer_ids)
    IN  IF normalized_ids # <<>> THEN Some(normalized_ids) ELSE None

\* auth.py get_current_user_email: the email header of the request
get_current_user_email == user

\* The row INSERT INTO ... VALUES stores; id is the identity column's next
\* value and CURRENT_TIMESTAMP() is kept to the day.
InsertedRow(group_name, customer_ids, access_type, effective_date, expiration_date, notes, by) ==
    [id |-> nextId,
     group_name |-> group_name,
     customer_ids |-> CustomerIdsArray(customer_ids),
     access_type |-> access_type,
     effective_date |-> Some(effective_date),
     expiration_date |-> expiration_date,
     notes |-> notes,
     created_by |-> by, created_at |-> today,
     modified_by |-> by, modified_at |-> today]

\* UPDATE ... SET group_name = ..., ..., modified_at = CURRENT_TIMESTAMP()
\* WHERE id = :rule_id
UpdatedRows(rule_id, group_name, customer_ids, access_type, effective_date, expiration_date, notes, by) ==
    {IF r.id = rule_id
     THEN [r EXCEPT !.group_name = group_name,
                    !.customer_ids = CustomerIdsArray(customer_ids),
                    !.access_type = access_type,
                    !.effective_date = Some(effective_date),
                    !.expiration_date = expiration_date,
                    !.notes = notes,
                    !.modified_by = by,
                    !.modified_at = today]
     ELSE r : r \in rules}

\* Variant of ExpiredRows whose UPDATE has no WHERE clause.
ExpiredRows_EveryRow(rule_id, by) ==
    {[r EXCEPT !.expiration_date = Some(today), !.modified_by = by, !.modified_at = today] :
        r \in rules}

\* UPDATE ... SET expiration_date = CURRENT_DATE(), modified_by = :user,
\* modified_at = CURRENT_TIMESTAMP() WHERE id = :rule_id
ExpiredRows(rule_id, by) ==
    {IF r.id = rule_id
     THEN [r EXCEPT !.expiration_date = Some(today), !.modified_by = by, !.modified_at = today]
     ELSE r : r \in rules}

add_access_rule(group_name, customer_ids, access_type, effective_date, expiration_date, notes, fault) ==
    LET row == InsertedRow(group_name, customer_ids, access_type, effective_date,
                           expiration_date, notes, get_current_user_email)
        out == UpdateThenLog("INSERT", "INSERT", group_name, fault)
    IN  /\ rules' = IF out.committed THEN rules \cup {row} ELSE rules
        /\ nextId' = IF out.committed THEN nextId + 1 ELSE nextId
        /\ result' = out.result
        /\ calls' = out.calls
        /\ audit_written' = out.rows
        /\ UNCHANGED <<today, table_tags, column_tags>>

update_access_rule(rule_id, group_name, customer_ids, access_type, effective_date, expiration_date, notes, fault) ==
    LET out == UpdateThenLog("UPDATE", "UPDATE", Str(rule_id), fault)
    IN  /\ rules' = IF out.committed
                    THEN UpdatedRows(rule_id, group_name, customer_ids, access_type,
                                     effective_date, expiration_date, notes,
                                     get_current_user_email)
                    ELSE rules
        /\ result' = out.result
        /\ calls' = out.calls
        /\ audit_written' = out.rows
        /\ UNCHANGED <<nextId, today, table_tags, column_tags>>

expire_access_rule(rule_id, fault) ==
    LET out == UpdateThenLog("EXPIRE", "EXPIRE", Str(rule_id), fault)
    IN  /\ rules' = IF out.committed THEN ExpiredRows(rule_id, get_current_user_email)
                    ELSE rules
        /\ result' = out.result
        /\ calls' = out.calls
        /\ audit_written' = out.rows
        /\ UNCHANGED <<nextId, today, table_tags, column_tags>>

\* Variant of DeleteWhere that takes a NULL expiration_date for an expired one.
DeleteWhere_NullAsExpired(r, rule_id) ==
    SqlAnd(SqlBool(r.id = rule_id),
           SqlOr(SqlIsNull(r.expiration_date), SqlLe(r.expiration_date, Some(today))))

\* WHERE id = :rule_id AND expiration_date <= CURRENT_DATE()
DeleteWhere(r, rule_id) ==
    SqlAnd(SqlBool(r.id = rule_id), SqlLe(r.expiration_date, Some(today)))

\* Variant of DeletedRows whose DELETE has WHERE id = :rule_id alone.
DeletedRows_IdOnly(rule_id) == {r \in rules : r.id = rule_id}

\* The rows the DELETE statement removes.
DeletedRows(rule_id) == {r \in rules : DeleteWhere(r, rule_id) = "T"}

delete_access_rule(rule_id, fault) ==
    IF fault = "primary"
    THEN /\ result' = "raise"
         /\ calls' = <<Call("DELETE", FALSE)>>
         /\ audit_written' = <<>>
         /\ UNCHANGED <<rules, nextId, today, table_tags, column_tags>>
    ELSE LET deleted == DeletedRows(rule_id)
             row_count == Cardinality(deleted)
             log == IF row_count # 0
                    THEN log_action("DELETE", "GROUP_ACCESS", Str(rule_id), fault)
                    ELSE [raised |-> FALSE, calls |-> <<>>, rows |-> <<>>]
         IN  /\ rules' = rules \ deleted
             /\ result' = IF log.raised THEN "raise"
                          ELSE IF row_count > 0 THEN "ok" ELSE "fail"
             /\ calls' = <<Call("DELETE", TRUE)>> \o log.calls
             /\ audit_written' = log.rows
             /\ UNCHANGED <<nextId, today, table_tags, column_tags>>

-----------------------------------------------------------------------------
(* pages/1_Group_Access.py: the add and edit forms *)

\* The errors list of a submitted form.
FormErrors(group_name, customer_ids_input, effective_date, expiration_date) ==
    (IF group_name = <<>> THEN {"Group name is required."} ELSE {})
    \cup (IF ~parse_customer_ids(customer_ids_input).valid THEN {"ids"} ELSE {})
    \cup (IF ~validate_dates(effective_date, expiration_date).valid THEN {"dates"} ELSE {})

Rejected ==
    /\ result' = "rejected"
    /\ calls' = <<>>
    /\ audit_written' = <<>>
    /\ UNCHANGED <<rules, nextId, today, table_tags, column_tags>>

render_add_form(group_name, customer_ids_input, access_type, effective_date, expiration_date, notes, fault) ==
    IF FormErrors(group_name, customer_ids_input, effective_date, expiration_date) # {}
    THEN Rejected
    ELSE add_access_rule(Strip(group_name), parse_customer_ids(customer_ids_input).value,
                         access_type, effective_date, expiration_date, Some(notes), fault)

render_edit_form(rule_id, group_name, customer_ids_input, access_type, effective_date, expiration_date, notes, fault) ==
    IF FormErrors(group_name, customer_ids_input, effective_date, expiration_date) # {}
    THEN Rejected
    ELSE update_access_rule(rule_id, Strip(group_name),
                            parse_customer_ids(customer_ids_input).value,
                            access_type, effective_date, expiration_date, Some(notes), fault)

\* Midnight passes.
NextDay ==
    /\ today < MaxDay
    /\ today' = today + 1
    /\ UNCHANGED <<rules, nextId, table_tags, column_tags, result, calls, audit_written>>
    /\ UNCHANGED <<reads, sessions>>

-----------------------------------------------------------------------------
(* pages/3_Audit_Reports.py: the access summary and the access matrix *)

\* _build_access_summary: the sentence shown for a rule, and the count in it.
build_access_summary(rule) ==
    LET customer_ids == IF IsNull(rule.customer_ids) THEN <<>> ELSE Val(rule.customer_ids)
        customer_count == Len(customer_ids)
    IN  IF rule.access_type = "INCLUDE"
        THEN IF customer_ids = <<>>
             THEN <<"Access given as ADMIN, all customers available">>
             ELSE <<"Access INCLUDED for", customer_count, "customers, EXCLUDED for all others">>
        ELSE IF rule.access_type = "EXCLUDE"
        THEN IF customer_ids = <<>>
             THEN <<"Access EXCLUDED for all customers">>
             ELSE <<"Access EXCLUDED for", customer_count, "customers, PROVIDED for all others">>
        ELSE <<"Access rules not specified">>

\* Variant of CurrentRule that still counts a rule on its expiration date.
CurrentRule_ThroughExpiration(rule, day) ==
    SqlAnd(SqlOr(SqlIsNull(rule.effective_date), SqlLe(rule.effective_date, Some(day))),
           SqlOr(SqlIsNull(rule.expiration_date),
                 SqlNot(SqlLe(rule.expiration_date, Some(day - 1))))) = "T"

\* current_df of _render_access_matrix: the rows kept as current on day `day`.
CurrentRule(rule, day) ==
    SqlAnd(SqlOr(SqlIsNull(rule.effective_date), SqlLe(rule.effective_date, Some(day))),
           SqlOr(SqlIsNull(rule.expiration_date), SqlGt(rule.expiration_date, Some(day)))) = "T"

-----------------------------------------------------------------------------
(* pages/4_RLS_ABAC_Tools.py: the generated row-filter function *)

\* is_member(group_name) for a session whose groups are member_groups
is_member(group_name, member_groups) == SqlBool(group_name \in member_groups)

\* The two date lines of the WHERE clause, on day `day`.
FilterWindow(gca, day) ==
    SqlAnd(SqlOr(SqlIsNull(gca.effective_date), SqlLe(gca.effective_date, Some(day))),
           SqlOr(SqlIsNull(gca.expiration_date), SqlGt(gca.expiration_date, Some(day))))

\* Variant of FilterIds without the customer_ids IS NULL branch.
FilterIds_NoNullBranch(gca, customer_id) ==
    SqlOr(SqlAnd(SqlBool(gca.access_type = "INCLUDE"),
                 array_contains(gca.customer_ids, customer_id)),
          SqlAnd(SqlBool(gca.access_type = "EXCLUDE"),
                 SqlNot(array_contains(gca.customer_ids, customer_id))))

\* The last conjunct of the WHERE clause: the three-way OR over customer_ids.
FilterIds(gca, customer_id) ==
    SqlOr(SqlOr(SqlIsNull(gca.customer_ids),
                SqlAnd(SqlBool(gca.access_type = "INCLUDE"),
                       array_contains(gca.customer_ids, customer_id))),
          SqlAnd(SqlBool(gca.access_type = "EXCLUDE"),
                 SqlNot(array_contains(gca.customer_ids, customer_id))))

FilterWhere(gca, customer_id, member_groups, day) ==
    SqlAnd(SqlAnd(is_member(gca.group_name, member_groups), FilterWindow(gca, day)),
           FilterIds(gca, customer_id))

\* Variant of customer_access_filter in which an EXCLUDE rule in effect that
\* lists the id hides it whatever the other rules grant.
customer_access_filter_ExcludeWins(customer_id, member_groups) ==
    /\ \E gca \in rules : FilterWhere(gca, customer_id, member_groups, today) = "T"
    /\ ~\E gca \in rules :
          /\ SqlAnd(is_member(gca.group_name, member_groups), FilterWindow(gca, today)) = "T"
          /\ gca.access_type = "EXCLUDE"
          /\ array_contains(gca.customer_ids, customer_id) = "T"

\* customer_access_filter(customer_id): EXISTS (SELECT 1 FROM access_table WHERE ...)
customer_access_filter(customer_id, member_groups) ==
    \E gca \in rules : FilterWhere(gca, customer_id, member_groups, today) = "T"

-----------------------------------------------------------------------------
(* tag_manager.py *)

\* f"{catalog}.{schema}.{table}"
FullName(catalog, schema, table) == catalog \o <<".">> \o schema \o <<".">> \o table

\* The backtick character (a TLA+ string cannot hold it).
Backtick == "BACKTICK"

\* The names a statement's multipart identifier refers to: its parts between
\* dots, a part in backticks taken whole with `` read as one backtick.
RECURSIVE ResolveFrom(_, _, _, _, _)
ResolveFrom(text, i, quoted, part, parts) ==
    IF i > Len(text) THEN Append(parts, part)
    ELSE IF quoted
    THEN IF text[i] # Backtick THEN ResolveFrom(text, i + 1, TRUE, Append(part, text[i]), parts)
         ELSE IF i < Len(text) /\ text[i + 1] = Backtick
         THEN ResolveFrom(text, i + 2, TRUE, Append(part, Backtick), parts)
         ELSE ResolveFrom(text, i + 1, FALSE, part, parts)
    ELSE IF text[i] = Backtick THEN ResolveFrom(text, i + 1, TRUE, part, parts)
    ELSE IF text[i] = "." THEN ResolveFrom(text, i + 1, FALSE, <<>>, Append(parts, part))
    ELSE ResolveFrom(text, i + 1, FALSE, Append(part, text[i]), parts)

Resolve(text) == ResolveFrom(text, 1, FALSE, <<>>, <<>>)

\* ALTER ... SET TAGS ('name' = 'value') on one object; UNSET TAGS ('name')
SetTag(tags, object, tag_name, tag_value) ==
    {t \in tags : ~(t.object = object /\ t.tag_name = tag_name)}
    \cup {[object |-> object, tag_name |-> tag_name, tag_value |-> tag_value]}
UnsetTag(tags, object, tag_name) ==
    {t \in tags : ~(t.object = object /\ t.tag_name = tag_name)}

\* try: execute_update(query); log_action(...); return True, ...
\* except Exception: return False, ...
TryUpdateThenLog(stmt, action_type, object_type, object_name, new_value, fault) ==
    IF fault = "primary"
    THEN [result |-> "fail", committed |-> FALSE,
          calls |-> <<Call(stmt, FALSE)>>, rows |-> <<>>]
    ELSE LET log == log_action(action_type, object_type, object_name, fault)
         IN  [result |-> IF log.raised THEN "fail" ELSE "ok", committed |-> TRUE,
              calls |-> <<Call(stmt, TRUE)>> \o log.calls, rows |-> log.rows]

InvalidTagName ==
    /\ result' = "fail"
    /\ calls' = <<>>
    /\ audit_written' = <<>>
    /\ UNCHANGED <<rules, nextId, today, table_tags, column_tags>>

apply_table_tag(catalog, schema, table, tag_name, tag_value, fault) ==
    IF ~validate_identifier(tag_name) THEN InvalidTagName
    ELSE LET full_name == FullName(catalog, schema, table)
             out == TryUpdateThenLog("SET_TABLE_TAG", "TAG_APPLY", "TABLE_TAG", full_name,
                                     tag_name \o <<"=">> \o tag_value, fault)
         IN  /\ table_tags' = IF out.committed
                              THEN SetTag(table_tags, Resolve(full_name), tag_name, tag_value)
                              ELSE table_tags
             /\ result' = out.result
             /\ calls' = out.calls
             /\ audit_written' = out.rows
             /\ UNCHANGED <<rules, nextId, today, column_tags>>

remove_table_tag(catalog, schema, table, tag_name, fault) ==
    IF ~validate_identifier(tag_name) THEN InvalidTagName
    ELSE LET full_name == FullName(catalog, schema, table)
             out == TryUpdateThenLog("UNSET_TABLE_TAG", "TAG_REMOVE", "TABLE_TAG", full_name,
                                     tag_name, fault)
         IN  /\ table_tags' = IF out.committed
                              THEN UnsetTag(table_tags, Resolve(full_name), tag_name)
                              ELSE table_tags
             /\ result' = out.result
             /\ calls' = out.calls
             /\ audit_written' = out.rows
             /\ UNCHANGED <<rules, nextId, today, column_tags>>

apply_column_tag(catalog, schema, table, column, tag_name, tag_value, fault) ==
    IF ~validate_identifier(tag_name) THEN InvalidTagName
    ELSE LET full_name == FullName(catalog, schema, table) \o <<".">> \o column
             out == TryUpdateThenLog("SET_COLUMN_TAG", "TAG_APPLY", "COLUMN_TAG", full_name,
                                     tag_name \o <<"=">> \o tag_value, fault)
         IN  /\ column_tags' = IF out.committed
                               THEN SetTag(column_tags, Resolve(full_name), tag_name, tag_value)
                               ELSE column_tags
             /\ result' = out.result
             /\ calls' = out.calls
             /\ audit_written' = out.rows
             /\ UNCHANGED <<rules, nextId, today, table_tags>>

-----------------------------------------------------------------------------
(* rls_abac_manager.py: the propagation executor *)

\* _quote_identifier: the name in backticks, each backtick in it doubled
RECURSIVE DoubleBackticks(_)
DoubleBackticks(value) ==
    IF value = <<>> THEN <<>>
    ELSE (IF Head(value) = Backtick THEN <<Backtick, Backtick>> ELSE <<Head(value)>>)
         \o DoubleBackticks(Tail(value))

quote_identifier(value) == <<Backtick>> \o DoubleBackticks(value) \o <<Backtick>>

\* _quote_fqn: ".".join of the quoted parts
RECURSIVE quote_fqn(_)
quote_fqn(parts) ==
    IF Len(parts) = 1 THEN quote_identifier(parts[1])
    ELSE quote_identifier(Head(parts)) \o <<".">> \o quote_fqn(Tail(parts))

\* PropagationAction; sql is the ALTER TABLE <table> ALTER COLUMN <column>
\* SET TAGS ('<tag_name>' = '<tag_value>') statement, kept as its four holes.
PropagationAction(catalog, schema, table, column_name, tag_name, tag_value) ==
    [table_fqn |-> FullName(catalog, schema, table),
     column_name |-> column_name,
     tag_name |-> tag_name,
     tag_value |-> tag_value,
     sql |-> [table |-> quote_fqn(<<catalog, schema, table>>),
              column |-> quote_identifier(column_name),
              tag_name |-> tag_name, tag_value |-> tag_value]]

\* The column tags after the statements of actions[1..n] ran in order.
RECURSIVE Executed(_, _, _)
Executed(tags, actions, n) ==
    IF n = 0 THEN tags
    ELSE LET sql == actions[n].sql
         IN  SetTag(Executed(tags, actions, n - 1), Resolve(sql.table) \o Resolve(sql.column),
                    sql.tag_name, sql.tag_value)

\* for action in actions: execute_update(action.sql); executed.append(action.sql)
\* The fault_at-th statement fails (0: none does) and its exception leaves the loop.
apply_propagation(actions, fault_at) ==
    LET ran == IF fault_at = 0 THEN Len(actions) ELSE fault_at - 1
    IN  /\ column_tags' = Executed(column_tags, actions, ran)
        /\ result' = IF fault_at = 0 THEN "ok" ELSE "raise"
        /\ calls' = [i \in 1..(IF fault_at = 0 THEN Len(actions) ELSE fault_at) |->
                        [stmt |-> "SET_COLUMN_TAG", ok |-> i # fault_at, sql |-> actions[i].sql]]
        /\ audit_written' = <<>>
        /\ UNCHANGED <<rules, nextId, today, table_tags>>

-----------------------------------------------------------------------------
(* The rule store under failing warehouse calls *)

AccessTypes == {"INCLUDE", "EXCLUDE"}
Operators == {"alice", "bob"}
\* A page before any of its forms was submitted.
BlankPage ==
    [check_failed |-> FALSE, denied |-> FALSE, rules |-> None, preview |-> <<>>,
     apply_button |-> FALSE]
EffectiveDates == 1..MaxDay
ExpirationDates == {None} \cup {Some(d) : d \in 1..(MaxDay + 1)}

GroupInputs == {<<"a">>}
IdInputs == {<<"1">>}
TypeInputs == {"INCLUDE"}

Init ==
    /\ rules = {}
    /\ nextId = 1
    /\ today = 1
    /\ table_tags = {}
    /\ column_tags = {}
    /\ result = "none"
    /\ calls = <<>>
    /\ audit_written = <<>>
    /\ args = <<>>
    /\ ret = <<>>
    /\ metadata = <<>>
    /\ user = "alice"
    /\ inflight = [o \in Operators |-> None]
    /\ page = BlankPage

RuleIds == 1..MaxRules

AddRule ==
    /\ nextId <= MaxRules
    /\ \E g \in GroupInputs, i \in IdInputs, t \in TypeInputs,
       e \in EffectiveDates, x \in ExpirationDates, f \in Faults :
        render_add_form(g, i, t, e, x, <<>>, f)
    /\ UNCHANGED <<reads, sessions>>

EditRule ==
    /\ \E id \in RuleIds, g \in GroupInputs, i \in IdInputs, t \in TypeInputs,
          e \in EffectiveDates, x \in ExpirationDates, f \in Faults :
           id < nextId /\ render_edit_form(id, g, i, t, e, x, <<>>, f)
    /\ UNCHANGED <<reads, sessions>>

\* The Expire and Delete buttons of a rule that was listed.
ExpireRule ==
    /\ \E id \in RuleIds, f \in Faults : id < nextId /\ expire_access_rule(id, f)
    /\ UNCHANGED <<reads, sessions>>

DeleteRule ==
    /\ \E id \in RuleIds, f \in Faults : id < nextId /\ delete_access_rule(id, f)
    /\ UNCHANGED <<reads, sessions>>

Next == AddRule \/ EditRule \/ ExpireRule \/ DeleteRule \/ NextDay

Spec == Init /\ [][Next]_vars

-----------------------------------------------------------------------------
(* Access evaluation over rules entered through the add form *)

Customers == {1, 2}
Groups == {<<>>, <<"a">>}

AccessGroupInputs == {<<>>, <<" ">>, <<"a">>}
AccessIdInputs == {<<>>, <<"1">>, <<"2", "-", "1">>}
\* effective and expiration dates entered: open-ended from day 1, open-ended
\* from day 2, and day 1 until day 2
AccessWindows == {<<1, None>>, <<2, None>>, <<1, Some(2)>>, <<2, Some(2)>>}

AccessAddRule ==
    /\ nextId <= MaxAccessRules
    /\ \E g \in AccessGroupInputs, i \in AccessIdInputs, t \in AccessTypes, w \in AccessWindows :
        render_add_form(g, i, t, w[1], w[2], <<>>, "none")
    /\ UNCHANGED <<reads, sessions>>

SpecAccess ==
    Init /\ [][AccessAddRule \/ NextDay]_vars

-----------------------------------------------------------------------------
(* Tag operations and propagation *)

Catalogs == {<<"c">>}
Schemas == {<<"s">>}
Tables == {<<"t">>, <<"u">>, <<"w">>}
Columns == {<<"k">>}
TagNameInputs == {<<"p">>, <<"p", "-">>}
TagValueInputs == {<<"v">>, <<"w">>}

\* Lists of at most n actions, one per table, no table twice.
RECURSIVE Plans(_)
Plans(n) ==
    IF n = 0 THEN {<<>>}
    ELSE Plans(n - 1) \cup
         {Append(p, PropagationAction(c, sc, t, k, <<"p">>, v)) :
            p \in {q \in Plans(n - 1) : Len(q) = n - 1},
            c \in Catalogs, sc \in Schemas, t \in Tables, k \in Columns, v \in TagValueInputs}

DistinctTables(p) == \A i, j \in 1..Len(p) : p[i].table_fqn = p[j].table_fqn => i = j

ApplyTableTag ==
    /\ \E c \in Catalogs, sc \in Schemas, t \in Tables, n \in TagNameInputs,
          v \in TagValueInputs, f \in Faults :
           apply_table_tag(c, sc, t, n, v, f)
    /\ UNCHANGED <<reads, sessions>>

RemoveTableTag ==
    /\ \E c \in Catalogs, sc \in Schemas, t \in Tables, n \in TagNameInputs, f \in Faults :
           remove_table_tag(c, sc, t, n, f)
    /\ UNCHANGED <<reads, sessions>>

ApplyColumnTag ==
    /\ \E c \in Catalogs, sc \in Schemas, t \in Tables, k \in Columns, n \in TagNameInputs,
          v \in TagValueInputs, f \in Faults :
           apply_column_tag(c, sc, t, k, n, v, f)
    /\ UNCHANGED <<reads, sessions>>

\* apply_propagation is called with a planned list that is not empty.
ApplyPropagation ==
    /\ \E p \in Plans(MaxPlan) :
           /\ p # <<>>
           /\ DistinctTables(p)
           /\ \E fault_at \in 0..Len(p) : apply_propagation(p, fault_at)
    /\ UNCHANGED <<reads, sessions>>

SpecTag ==
    Init /\ [][ApplyTableTag \/ RemoveTableTag \/ ApplyColumnTag \/ ApplyPropagation]_vars

-----------------------------------------------------------------------------
(* Calls of the validators *)

MaxTokens == 3      \* comma-separated tokens of an id expression
MaxIds == 3         \* longest id collection given to normalize_customer_ids

\* What is typed between two commas of the Customer IDs field.
TokenInputs ==
    {<<>>, <<" ">>, <<"1">>, <<" ", "2">>, <<"0", "1">>, <<"+", "1">>,
     <<"3", "-", "5">>, <<"5", "-", "3">>, <<"2", " ", "-", "2">>, <<"1", "-", "-", "2">>,
     <<"-", "1">>, <<"x">>, <<"1", "-", "x">>, <<"1", " ", "2">>}

\* The texts of at most n tokens.
RECURSIVE Texts(_)
Texts(n) ==
    IF n = 0 THEN {<<>>}
    ELSE IF n = 1 THEN {<<>>} \cup TokenInputs
    ELSE Texts(n - 1) \cup {t \o <<",">> \o k : t \in Texts(n - 1) \ {<<>>}, k \in TokenInputs}
                      \cup {<<",">> \o k : k \in TokenInputs}

\* The id collections of at most n ids.
RECURSIVE IdLists(_)
IdLists(n) ==
    IF n = 0 THEN {<<>>}
    ELSE IdLists(n - 1) \cup {Append(l, i) : l \in IdLists(n - 1), i \in 0..2}

\* Variant of RenderIds that writes a dash between the ids.
RECURSIVE RenderIds_DashJoined(_)
RenderIds_DashJoined(customer_ids) ==
    IF customer_ids = <<>> THEN <<>>
    ELSE IF Len(customer_ids) = 1 THEN Str(customer_ids[1])
    ELSE Str(customer_ids[1]) \o <<"-">> \o RenderIds_DashJoined(Tail(customer_ids))

\* ", ".join(map(str, customer_ids)): the text the edit form shows for stored ids
RECURSIVE RenderIds(_)
RenderIds(customer_ids) ==
    IF customer_ids = <<>> THEN <<>>
    ELSE IF Len(customer_ids) = 1 THEN Str(customer_ids[1])
    ELSE Str(customer_ids[1]) \o <<",", " ">> \o RenderIds(Tail(customer_ids))

InitValidators ==
    /\ rules = {}
    /\ nextId = 1
    /\ today = 1
    /\ table_tags = {}
    /\ column_tags = {}
    /\ result = "none"
    /\ calls = <<>>
    /\ audit_written = <<>>
    /\ args \in
           {[fn |-> "parse_customer_ids", customer_ids_str |-> t] : t \in Texts(MaxTokens)}
           \cup {[fn |-> "normalize_customer_ids", values |-> l] : l \in IdLists(MaxIds)}
           \cup {[fn |-> "validate_dates", effective_date |-> e, expiration_date |-> x] :
                   e \in 1..(MaxDay + 1), x \in ExpirationDates}
    /\ ret = None
    /\ metadata = <<>>
    /\ user = "alice"
    /\ inflight = [o \in Operators |-> None]
    /\ page = BlankPage

ParseCustomerIds ==
    /\ args.fn = "parse_customer_ids"
    /\ IsNull(ret)
    /\ ret' = Some(parse_customer_ids(args.customer_ids_str))
    /\ UNCHANGED <<store, args, metadata, sessions>>

\* The edit form of a rule stored with the ids just parsed: it shows them as
\* text, and that text is what a submit parses.
ReopenInEditForm ==
    /\ args.fn = "parse_customer_ids"
    /\ ~IsNull(ret) /\ Val(ret).valid
    /\ RenderIds(Val(ret).value) # args.customer_ids_str
    /\ args' = [fn |-> "parse_customer_ids", customer_ids_str |-> RenderIds(Val(ret).value)]
    /\ ret' = None
    /\ UNCHANGED <<store, metadata, sessions>>

NormalizeCustomerIds ==
    /\ args.fn = "normalize_customer_ids"
    /\ IsNull(ret)
    /\ ret' = Some(normalize_customer_ids(args.values))
    /\ UNCHANGED <<store, args, metadata, sessions>>

\* The normalized list is given to normalize_customer_ids again.
NormalizeAgain ==
    /\ args.fn = "normalize_customer_ids"
    /\ ~IsNull(ret)
    /\ Val(ret) # args.values
    /\ args' = [fn |-> "normalize_customer_ids", values |-> Val(ret)]
    /\ ret' = None
    /\ UNCHANGED <<store, metadata, sessions>>

ValidateDates ==
    /\ args.fn = "validate_dates"
    /\ IsNull(ret)
    /\ ret' = Some(validate_dates(args.effective_date, args.expiration_date))
    /\ UNCHANGED <<store, args, metadata, sessions>>

SpecValidators ==
    InitValidators /\ [][ParseCustomerIds \/ ReopenInEditForm \/ NormalizeCustomerIds \/ NormalizeAgain \/ ValidateDates]_vars

-----------------------------------------------------------------------------
(* access_manager.get_access_rules and the sidebar filters of the rules page *)

\* Characters in code point order, for the comparison of texts.
CharRank(c) ==
    LET order == <<"\n", " ", "+", ",", "-", ".", "0", "1", "2", "3", "4", "5", "6", "7",
                   "8", "9", "=", "_", "a", "b", "c", "k", "p", "s", "t", "u", "v", "w", "x">>
    IN  CHOOSE i \in 1..Len(order) : order[i] = c

\* a < b for two texts
RECURSIVE TextLess(_, _)
TextLess(a, b) ==
    IF b = <<>> THEN FALSE
    ELSE IF a = <<>> THEN TRUE
    ELSE IF Head(a) = Head(b) THEN TextLess(Tail(a), Tail(b))
    ELSE CharRank(Head(a)) < CharRank(Head(b))

\* _build_filters: a key is set when its sidebar field is filled in.
build_filters(group_filter, customer_id_filter, status_filter) ==
    [group_name |-> IF group_filter # <<>> THEN Some(Strip(group_filter)) ELSE None,
     customer_id |-> IF customer_id_filter # <<>> /\ IntValid(customer_id_filter)
                     THEN Some(IntValue(customer_id_filter)) ELSE None,
     status |-> IF status_filter # "all" THEN Some(status_filter) ELSE None]

\* if filters.get(key): the key is set and its value is not "" (a text), not 0
\* (an integer)
TruthyText(x) == ~IsNull(x) /\ Val(x) # <<>>
TruthyInt(x) == ~IsNull(x) /\ Val(x) # 0

\* Variant of ListWhere whose expired status is expiration_date < CURRENT_DATE().
ListWhere_ExpiredBeforeToday(r, filters) ==
    SqlAnd(IF TruthyText(filters.group_name)
           THEN SqlBool(r.group_name = Val(filters.group_name)) ELSE "T",
    SqlAnd(IF filters.status = Some("active")
           THEN SqlOr(SqlIsNull(r.expiration_date), SqlGt(r.expiration_date, Some(today)))
           ELSE IF filters.status = Some("expired")
           THEN (IF IsNull(r.expiration_date) THEN "U"
                 ELSE SqlBool(Val(r.expiration_date) < today)) ELSE "T",
           IF TruthyInt(filters.customer_id)
           THEN array_contains(r.customer_ids, Val(filters.customer_id)) ELSE "T"))

\* The WHERE clause get_access_rules builds: 1 = 1 and one AND per filter taken.
ListWhere(r, filters) ==
    SqlAnd(IF TruthyText(filters.group_name)
           THEN SqlBool(r.group_name = Val(filters.group_name)) ELSE "T",
    SqlAnd(IF filters.status = Some("active")
           THEN SqlOr(SqlIsNull(r.expiration_date), SqlGt(r.expiration_date, Some(today)))
           ELSE IF filters.status = Some("expired")
           THEN SqlLe(r.expiration_date, Some(today)) ELSE "T",
           IF TruthyInt(filters.customer_id)
           THEN array_contains(r.customer_ids, Val(filters.customer_id)) ELSE "T"))

\* The lists of the rows of S, each row once.
RECURSIVE Orderings(_)
Orderings(S) ==
    IF S = {} THEN {<<>>}
    ELSE UNION {{<<r>> \o s : s \in Orderings(S \ {r})} : r \in S}

\* get_access_rules(filters): the lists the query may return under ORDER BY
\* group_name, effective_date DESC (rows equal under it come in either order)
get_access_rules(filters) ==
    {s \in Orderings({r \in rules : ListWhere(r, filters) = "T"}) :
        \A i, j \in 1..Len(s) :
            i < j => \/ TextLess(s[i].group_name, s[j].group_name)
                     \/ /\ s[i].group_name = s[j].group_name
                        /\ Val(s[i].effective_date) >= Val(s[j].effective_date)}

-----------------------------------------------------------------------------
(* rls_abac_manager.py: tag discovery and the propagation planner *)

\* _split_rls_types: the stripped, non-empty items of a comma-separated value
split_rls_types(tag_value) ==
    LET items == Split(tag_value, ",")
    IN  {Strip(items[i]) : i \in 1..Len(items)} \ {<<>>}

\* if target_catalog: / if target_schema: the filter is given and not ""
TargetGiven(target) == ~IsNull(target) /\ Val(target) # <<>>

\* The rows of the three tag views for a tag name, and of the tables view.
\* None of the four queries has an ORDER BY: the rows are a set here, and the
\* loops below take them in any order.
get_tagged_catalogs(tag_name, target_catalog) ==
    {row \in metadata.catalog_tags :
        /\ row.tag_name = tag_name
        /\ TargetGiven(target_catalog) => row.catalog_name = Val(target_catalog)}

get_tagged_schemas(tag_name, target_catalog, target_schema) ==
    {row \in metadata.schema_tags :
        /\ row.tag_name = tag_name
        /\ TargetGiven(target_catalog) => row.catalog_name = Val(target_catalog)
        /\ TargetGiven(target_schema) => row.schema_name = Val(target_schema)}

get_tagged_tables(tag_name, target_catalog, target_schema) ==
    {row \in metadata.table_tags :
        /\ row.tag_name = tag_name
        /\ TargetGiven(target_catalog) => row.catalog_name = Val(target_catalog)
        /\ TargetGiven(target_schema) => row.schema_name = Val(target_schema)}

get_tables_in_catalog(catalog) ==
    {row \in metadata.tables : row.table_catalog = catalog}

get_tables_in_schema(catalog, schema) ==
    {row \in metadata.tables : row.table_catalog = catalog /\ row.table_schema = schema}

\* get_table_columns: the column names of one table
get_table_columns(catalog, schema, table) ==
    {row.column_name : row \in
        {c \in metadata.columns :
            c.table_catalog = catalog /\ c.table_schema = schema /\ c.table_name = table}}

\* table_key of a row of the tables view
TableKey(table_row) ==
    FullName(table_row.table_catalog, table_row.table_schema, table_row.table_name)

\* One tag row with the tables its loop body visits: every table of the
\* catalog, every table of the schema, or the tagged table itself.
CatalogBindings(a) ==
    {[types |-> split_rls_types(row.tag_value),
      keys |-> {TableKey(t) : t \in get_tables_in_catalog(row.catalog_name)}] :
        row \in get_tagged_catalogs(a.parent_tag_name, a.target_catalog)}

SchemaBindings(a) ==
    {[types |-> split_rls_types(row.tag_value),
      keys |-> {TableKey(t) : t \in get_tables_in_schema(row.catalog_name, row.schema_name)}] :
        row \in get_tagged_schemas(a.parent_tag_name, a.target_catalog, a.target_schema)}

TableBindings(a) ==
    {[types |-> split_rls_types(row.tag_value),
      keys |-> {FullName(row.catalog_name, row.schema_name, row.table_name)}] :
        row \in get_tagged_tables(a.parent_tag_name, a.target_catalog, a.target_schema)}

\* The lists of the members of a set, each once.
RECURSIVE RowOrders(_)
RowOrders(S) ==
    IF S = {} THEN {<<>>}
    ELSE UNION {{<<x>> \o s : s \in RowOrders(S \ {x})} : x \in S}

\* The setdefault(table_key, set()).update(types) calls of one scope's loops,
\* in each order the rows may come in.
RECURSIVE ScopeUpdates(_)
ScopeUpdates(bindings) ==
    IF bindings = {} THEN {<<>>}
    ELSE UNION {
            {[i \in 1..Len(o) |-> [key |-> o[i], types |-> b.types]] \o rest :
                o \in RowOrders(b.keys), rest \in ScopeUpdates(bindings \ {b})} :
            b \in bindings}

\* Variant of Accumulate in which a later update replaces the categories.
RECURSIVE Accumulate_Replaces(_, _)
Accumulate_Replaces(d, updates) ==
    IF updates = <<>> THEN d
    ELSE LET u == Head(updates)
             at == {i \in 1..Len(d) : d[i].key = u.key}
         IN  IF at = {}
             THEN Accumulate_Replaces(Append(d, u), Tail(updates))
             ELSE Accumulate_Replaces([i \in 1..Len(d) |-> IF i \in at THEN u ELSE d[i]],
                                      Tail(updates))

\* tables_to_process after the updates: a dict keeps its keys in the order of
\* their first insertion, and update() adds to the set already there.
RECURSIVE Accumulate(_, _)
Accumulate(d, updates) ==
    IF updates = <<>> THEN d
    ELSE LET u == Head(updates)
             at == {i \in 1..Len(d) : d[i].key = u.key}
         IN  IF at = {}
             THEN Accumulate(Append(d, u), Tail(updates))
             ELSE Accumulate([i \in 1..Len(d) |->
                                 IF i \in at
                                 THEN [key |-> u.key, types |-> d[i].types \cup u.types]
                                 ELSE d[i]],
                             Tail(updates))

\* table_fqn.split(".", maxsplit=2)
SplitFqn(table_fqn) ==
    LET first == SplitOnce(table_fqn, ".")
        second == SplitOnce(first[2], ".")
    IN  <<first[1], second[1], second[2]>>

\* Variant of PlanActions that does not look at the columns of a table.
RECURSIVE PlanActions_NoColumnCheck(_, _)
PlanActions_NoColumnCheck(d, a) ==
    IF d = <<>> THEN <<>>
    ELSE LET name == SplitFqn(Head(d).key)
         IN  (IF a.required_parent_tag \notin Head(d).types THEN <<>>
              ELSE <<PropagationAction(name[1], name[2], name[3], a.column_name,
                                       a.column_tag_name, a.column_tag_value)>>)
             \o PlanActions_NoColumnCheck(Tail(d), a)

\* The second loop of build_propagation_plan, over tables_to_process.items().
RECURSIVE PlanActions(_, _)
PlanActions(d, a) ==
    IF d = <<>> THEN <<>>
    ELSE LET name == SplitFqn(Head(d).key)
         IN  (IF a.required_parent_tag \notin Head(d).types THEN <<>>
              ELSE IF a.column_name \notin get_table_columns(name[1], name[2], name[3])
              THEN <<>>
              ELSE <<PropagationAction(name[1], name[2], name[3], a.column_name,
                                       a.column_tag_name, a.column_tag_value)>>)
             \o PlanActions(Tail(d), a)

\* build_propagation_plan: what one run may leave in tables_to_process and
\* return, one outcome for each order the rows of its queries may come in.
build_propagation_plan(a) ==
    {[tables_to_process |-> Accumulate(<<>>, uc \o us \o ut),
      actions |-> PlanActions(Accumulate(<<>>, uc \o us \o ut), a)] :
        uc \in ScopeUpdates(CatalogBindings(a)),
        us \in ScopeUpdates(SchemaBindings(a)),
        ut \in ScopeUpdates(TableBindings(a))}

-----------------------------------------------------------------------------
(* The planner over a metadata snapshot *)

\* The tables view: two catalogs, c with schemas s and r, d with schema s.
SnapshotTables ==
    {[table_catalog |-> <<"c">>, table_schema |-> <<"s">>, table_name |-> <<"t">>],
     [table_catalog |-> <<"c">>, table_schema |-> <<"s">>, table_name |-> <<"u">>],
     [table_catalog |-> <<"c">>, table_schema |-> <<"r">>, table_name |-> <<"t">>],
     [table_catalog |-> <<"d">>, table_schema |-> <<"s">>, table_name |-> <<"t">>]}

CatalogTag(catalog, tag_name, v) ==
    [catalog_name |-> catalog, tag_name |-> tag_name, tag_value |-> v]
SchemaTag(catalog, schema, tag_name, v) ==
    [catalog_name |-> catalog, schema_name |-> schema, tag_name |-> tag_name, tag_value |-> v]
TableTag(catalog, schema, table, tag_name, v) ==
    [catalog_name |-> catalog, schema_name |-> schema, table_name |-> table,
     tag_name |-> tag_name, tag_value |-> v]

\* Every table has a column j; the tables of Without have no column k.
ColumnsView(Without) ==
    {[table_catalog |-> t.table_catalog, table_schema |-> t.table_schema,
      table_name |-> t.table_name, column_name |-> <<"j">>] : t \in SnapshotTables}
    \cup {[table_catalog |-> t.table_catalog, table_schema |-> t.table_schema,
           table_name |-> t.table_name, column_name |-> <<"k">>] :
            t \in SnapshotTables \ Without}

\* Each tagged object has the tag or not (an object has one value for a tag
\* name); the parent tag of catalog c names one category, two, or one among
\* empty items.
Snapshots ==
    {[catalog_tags |-> c \cup d, schema_tags |-> sc \cup r, table_tags |-> t \cup q,
      tables |-> SnapshotTables, columns |-> ColumnsView(W)] :
        c \in {{}} \cup {{CatalogTag(<<"c">>, <<"p">>, v)} :
                            v \in {<<"A">>, <<"B">>, <<" ", "A", ",", "B">>,
                                   <<",", "B", " ", ",">>}},
        d \in {{}, {CatalogTag(<<"d">>, <<"p">>, <<"A">>)}},
        sc \in {{}} \cup {{SchemaTag(<<"c">>, <<"s">>, <<"p">>, v)} :
                             v \in {<<"B">>, <<" ", "A", ",", "B">>}},
        r \in {{}, {SchemaTag(<<"c">>, <<"r">>, <<"p">>, <<"B">>)}},
        t \in {{}, {TableTag(<<"c">>, <<"s">>, <<"t">>, <<"p">>, <<"A">>)}},
        q \in {{}, {TableTag(<<"c">>, <<"r">>, <<"t">>, <<"q">>, <<"A">>)}},
        W \in {{}, {x \in SnapshotTables :
                        x.table_name = <<"u">> \/ x.table_schema = <<"r">>}}}

\* The Propagate Tags form: parent tag p, column k, column tag p = v.
PlanCalls ==
    {[fn |-> "build_propagation_plan",
      parent_tag_name |-> <<"p">>, required_parent_tag |-> req,
      column_name |-> <<"k">>, column_tag_name |-> <<"p">>, column_tag_value |-> <<"v">>,
      target_catalog |-> tc, target_schema |-> ts] :
        req \in {<<"A">>, <<"B">>},
        tc \in {None, Some(<<"c">>)},
        ts \in {None, Some(<<"s">>)}}

InitPlan ==
    /\ rules = {}
    /\ nextId = 1
    /\ today = 1
    /\ table_tags = {}
    /\ column_tags = {}
    /\ result = "none"
    /\ calls = <<>>
    /\ audit_written = <<>>
    /\ args \in PlanCalls
    /\ ret = None
    /\ metadata \in Snapshots
    /\ user = "alice"
    /\ inflight = [o \in Operators |-> None]
    /\ page = BlankPage

\* Build Plan is pressed, the first time or again with the form unchanged.
BuildPlan ==
    /\ \E out \in build_propagation_plan(args) : ret' = Some(out)
    /\ UNCHANGED <<store, args, metadata, sessions>>

SpecPlan ==
    InitPlan /\ [][BuildPlan]_vars

-----------------------------------------------------------------------------
(* pages/4_RLS_ABAC_Tools.py: the Propagate Tags section *)

PreviewLimit == 50  \* for action in actions[:50]

\* _render_actions(actions, dry_run); pressed is what st.button("Apply Tags")
\* returns when the run reaches it.
render_actions(actions, dry_run, pressed, fault_at) ==
    LET preview == SubSeq(actions, 1, IF Len(actions) < PreviewLimit THEN Len(actions)
                                      ELSE PreviewLimit)
        nothing == /\ result' = "none"
                   /\ calls' = <<>>
                   /\ audit_written' = <<>>
                   /\ UNCHANGED <<rules, nextId, today, table_tags, column_tags>>
    IN  IF actions = <<>>
        THEN nothing /\ page' = BlankPage
        ELSE IF dry_run
        THEN nothing /\ page' = [BlankPage EXCEPT !.preview = preview]
        ELSE /\ page' = [BlankPage EXCEPT !.preview = preview, !.apply_button = TRUE]
             /\ IF pressed THEN apply_propagation(actions, fault_at) ELSE nothing

\* _render_propagation: one run of the section; submit is what
\* st.form_submit_button("Build Plan") returned in this run.
render_propagation(submit, a, dry_run, pressed, fault_at) ==
    IF submit
    THEN \E out \in build_propagation_plan(a) :
            /\ render_actions(out.actions, dry_run, pressed, fault_at)
            /\ args' = a
            /\ ret' = Some(out)
    ELSE /\ page' = BlankPage
         /\ result' = "none"
         /\ calls' = <<>>
         /\ audit_written' = <<>>
         /\ UNCHANGED <<rules, nextId, today, table_tags, column_tags, args, ret>>

\* Build Plan is pressed: the script runs with submit true.  No button
\* outside the form was pressed in that run.
SubmitPropagationForm ==
    /\ \E a \in PlanCalls, dry_run \in BOOLEAN :
           render_propagation(TRUE, a, dry_run, FALSE, 0)
    /\ UNCHANGED <<metadata, user, inflight>>

\* Apply Tags, shown by the last run, is pressed: the script runs again, and
\* in that run the form's submit button, not pressed, returns False.
PressApplyTags ==
    /\ page.apply_button
    /\ \E dry_run \in BOOLEAN, fault_at \in 0..Len(page.preview) :
           render_propagation(FALSE, args, dry_run, TRUE, fault_at)
    /\ UNCHANGED <<metadata, user, inflight>>

\* The page is opened on a snapshot whose tags sit on schemas and on table c.s.t.
InitPropagationPage ==
    /\ rules = {}
    /\ nextId = 1
    /\ today = 1
    /\ table_tags = {}
    /\ column_tags = {}
    /\ result = "none"
    /\ calls = <<>>
    /\ audit_written = <<>>
    /\ args \in {a \in PlanCalls : IsNull(a.target_catalog) /\ IsNull(a.target_schema)}
    /\ ret = None
    /\ metadata \in {m \in Snapshots :
                        /\ m.catalog_tags = {}
                        /\ m.table_tags \subseteq
                               {TableTag(<<"c">>, <<"s">>, <<"t">>, <<"p">>, <<"A">>)}}
    /\ user = "alice"
    /\ inflight = [o \in Operators |-> None]
    /\ page = BlankPage

SpecPropagationPage ==
    InitPropagationPage /\ [][SubmitPropagationForm \/ PressApplyTags]_vars

-----------------------------------------------------------------------------
(* auth.py and the admin check at the top of a page *)

\* What execute_query gives for SELECT is_member('<admin group>') AS is_admin:
\* an exception, no row, or one row whose is_admin is TRUE, FALSE or NULL.
AdminQueryOutcomes ==
    {[raised |-> TRUE, rows |-> <<>>], [raised |-> FALSE, rows |-> <<>>]}
    \cup {[raised |-> FALSE, rows |-> <<[is_admin |-> v]>>] :
            v \in {Some(TRUE), Some(FALSE), None}}

\* Variant of check_admin_access that lets the operator in when the query fails.
check_admin_access_FailOpen(outcome) ==
    IF outcome.raised THEN TRUE
    ELSE IF outcome.rows = <<>> THEN FALSE
    ELSE ~IsNull(outcome.rows[1].is_admin) /\ Val(outcome.rows[1].is_admin)

check_admin_access(outcome) ==
    IF outcome.raised THEN FALSE
    ELSE IF outcome.rows = <<>> THEN FALSE
    ELSE ~IsNull(outcome.rows[1].is_admin) /\ Val(outcome.rows[1].is_admin)

\* What the operator did to start a run of the Group Access page.
Presses ==
    {[kind |-> "open"]}
    \cup {[kind |-> "add", expiration_date |-> x] : x \in {None, Some(1), Some(MaxDay + 1)}}
    \cup {[kind |-> k, id |-> id] : k \in {"expire", "delete"}, id \in 1..MaxRules}

\* pages/1_Group_Access.py render_page: the admin check, st.stop() when it
\* fails, else the unfiltered list and the handler of what was pressed.
render_group_access(outcome, press, fault) ==
    IF ~check_admin_access(outcome)
    THEN /\ page' = [BlankPage EXCEPT !.denied = TRUE, !.check_failed = outcome.raised]
         /\ result' = "none"
         /\ calls' = <<>>
         /\ audit_written' = <<>>
         /\ UNCHANGED <<rules, nextId, today, table_tags, column_tags>>
    ELSE /\ \E listed \in get_access_rules(build_filters(<<>>, <<>>, "all")) :
                page' = [BlankPage EXCEPT !.rules = Some(listed)]
         /\ IF press.kind = "add"
            THEN render_add_form(<<"a">>, <<"1">>, "INCLUDE", 1, press.expiration_date,
                                 <<>>, fault)
            ELSE IF press.kind = "expire" THEN expire_access_rule(press.id, fault)
            ELSE IF press.kind = "delete" THEN delete_access_rule(press.id, fault)
            ELSE /\ result' = "none"
                 /\ calls' = <<Call("SELECT", TRUE)>>
                 /\ audit_written' = <<>>
                 /\ UNCHANGED <<rules, nextId, today, table_tags, column_tags>>

RunGroupAccess ==
    /\ \E outcome \in AdminQueryOutcomes, press \in Presses, fault \in Faults :
        /\ press.kind = "add" => nextId <= MaxRules
        /\ press.kind \in {"expire", "delete"} => press.id < nextId
        /\ press.kind = "open" => fault = "none"
        /\ render_group_access(outcome, press, fault)
    /\ UNCHANGED <<reads, user, inflight>>

SpecAdmin ==
    Init /\ [][RunGroupAccess \/ NextDay]_vars

-----------------------------------------------------------------------------
(* Tag operations on one table, over tag names of every shape *)

\* A name, a name with a hyphen, a name that ends in a newline, an empty name.
AnyTagNameInputs == {<<"p">>, <<"p", "-">>, <<"p", "\n">>, <<>>}

NamedTagOperation ==
    /\ \E n \in AnyTagNameInputs, v \in TagValueInputs, f \in Faults :
           \/ apply_table_tag(<<"c">>, <<"s">>, <<"t">>, n, v, f)
           \/ remove_table_tag(<<"c">>, <<"s">>, <<"t">>, n, f)
           \/ apply_column_tag(<<"c">>, <<"s">>, <<"t">>, <<"k">>, n, v, f)
    /\ UNCHANGED <<reads, sessions>>

SpecTagNames == Init /\ [][NamedTagOperation]_vars

-----------------------------------------------------------------------------
(* Two operators editing the rules, no warehouse call failing *)

\* The next request comes from the other operator.
SwitchUser ==
    /\ user' \in Operators \ {user}
    /\ UNCHANGED <<store, reads, inflight, page>>

\* Rules are entered by alice: group a, customer 1, open-ended from day 1.
EditAdd ==
    /\ user = "alice"
    /\ nextId <= MaxAccessRules
    /\ render_add_form(<<"a">>, <<"1">>, "INCLUDE", 1, None, <<>>, "none")
    /\ UNCHANGED <<reads, sessions>>

\* The edit form of a listed rule is submitted with every field changed.
EditUpdate ==
    /\ \E id \in 1..MaxAccessRules :
        /\ id < nextId
        /\ render_edit_form(id, <<"b">>, <<"2">>, "EXCLUDE", 2, None, <<"n">>, "none")
    /\ UNCHANGED <<reads, sessions>>

EditExpire ==
    /\ \E id \in 1..MaxAccessRules : id < nextId /\ expire_access_rule(id, "none")
    /\ UNCHANGED <<reads, sessions>>

SpecEdit ==
    Init /\ [][SwitchUser \/ EditAdd \/ EditUpdate \/ EditExpire \/ NextDay]_vars

-----------------------------------------------------------------------------
(* Two operators on the Group Access page, their runs interleaved *)

\* A run of the page lists the rules, then the handler of the pressed button or
\* submitted form runs its statement, then log_action writes the audit row.
\* inflight[o] is where the run of operator o stands: None when it has no run,
\* else what was pressed for which listed rule and whether the statement ran.
Pressed(op, id, expiration_date) ==
    [op |-> op, id |-> id, expiration_date |-> expiration_date, executed |-> FALSE]

\* render_page up to the handler: get_access_rules, the select box over the
\* listed ids, and Expire, Delete or the edit form's Update pressed.
ListAndPress ==
    /\ IsNull(inflight[user])
    /\ \E listed \in get_access_rules(build_filters(<<>>, <<>>, "all")) :
       \E i \in 1..Len(listed), op \in {"UPDATE", "EXPIRE", "DELETE"}, x \in {None, Some(1), Some(MaxDay + 1)} :
        /\ op # "UPDATE" => x = None
        /\ inflight' = [inflight EXCEPT ![user] = Some(Pressed(op, listed[i].id, x))]
    /\ result' = "none"
    /\ calls' = <<Call("SELECT", TRUE)>>
    /\ audit_written' = <<>>
    /\ UNCHANGED <<rules, nextId, today, table_tags, column_tags, reads, user, page>>

\* execute_update of the handler: one UPDATE or DELETE statement.
ExecuteStatement ==
    /\ ~IsNull(inflight[user])
    /\ ~Val(inflight[user]).executed
    /\ LET run == Val(inflight[user])
           row_count == Cardinality(DeletedRows(run.id))
       IN  /\ rules' = IF run.op = "UPDATE"
                       THEN UpdatedRows(run.id, <<"a">>, <<1>>, "INCLUDE", 1,
                                        run.expiration_date, Some(<<"n">>),
                                        get_current_user_email)
                       ELSE IF run.op = "EXPIRE"
                       THEN ExpiredRows(run.id, get_current_user_email)
                       ELSE rules \ DeletedRows(run.id)
           /\ inflight' = [inflight EXCEPT ![user] =
                             IF run.op = "DELETE" /\ row_count = 0 THEN None
                             ELSE Some([run EXCEPT !.executed = TRUE])]
           /\ result' = IF run.op = "DELETE" /\ row_count = 0 THEN "fail" ELSE "none"
           /\ calls' = <<Call(run.op, TRUE)>>
    /\ audit_written' = <<>>
    /\ UNCHANGED <<nextId, today, table_tags, column_tags, reads, user, page>>

\* log_action of the handler, then return True.
WriteAudit ==
    /\ ~IsNull(inflight[user])
    /\ Val(inflight[user]).executed
    /\ LET run == Val(inflight[user])
           log == log_action(run.op, "GROUP_ACCESS", Str(run.id), "none")
       IN  /\ calls' = log.calls
           /\ audit_written' = log.rows
    /\ result' = "ok"
    /\ inflight' = [inflight EXCEPT ![user] = None]
    /\ UNCHANGED <<rules, nextId, today, table_tags, column_tags, reads, user, page>>

\* The store holds the one rule both operators work on, entered by alice on
\* day 1, open-ended or with an expiration date yet to come.
InitConcurrent ==
    /\ \E x \in {None, Some(MaxDay + 1)} :
        rules = {[id |-> 1, group_name |-> <<"a">>, customer_ids |-> Some(<<1>>),
                  access_type |-> "INCLUDE", effective_date |-> Some(1),
                  expiration_date |-> x, notes |-> Some(<<>>),
                  created_by |-> "alice", created_at |-> 1,
                  modified_by |-> "alice", modified_at |-> 1]}
    /\ nextId = 2
    /\ today = 1
    /\ table_tags = {}
    /\ column_tags = {}
    /\ result = "none"
    /\ calls = <<>>
    /\ audit_written = <<>>
    /\ args = <<>>
    /\ ret = <<>>
    /\ metadata = <<>>
    /\ user = "alice"
    /\ inflight = [o \in Operators |-> None]
    /\ page = BlankPage

SpecConcurrent ==
    InitConcurrent /\ [][SwitchUser \/ ListAndPress \/ ExecuteStatement \/ WriteAudit \/ NextDay]_vars

-----------------------------------------------------------------------------
(* The planner over tables whose names hold a dot *)

TableRow(catalog, schema, table) ==
    [table_catalog |-> catalog, table_schema |-> schema, table_name |-> table]

\* c.s.t; table t.u of schema s; table u of schema s.t; table u of catalog c.s.
DottedTables ==
    {TableRow(<<"c">>, <<"s">>, <<"t">>),
     TableRow(<<"c">>, <<"s">>, <<"t", ".", "u">>),
     TableRow(<<"c">>, <<"s", ".", "t">>, <<"u">>),
     TableRow(<<"c", ".", "s">>, <<"t">>, <<"u">>)}

\* Some of these tables exist, some of those carry the tag p = 'A', and each
\* has the columns j and k.
InitPlanNames ==
    /\ rules = {}
    /\ nextId = 1
    /\ today = 1
    /\ table_tags = {}
    /\ column_tags = {}
    /\ result = "none"
    /\ calls = <<>>
    /\ audit_written = <<>>
    /\ args \in {a \in PlanCalls : IsNull(a.target_catalog) /\ IsNull(a.target_schema)}
    /\ ret = None
    /\ metadata \in {m \in
                  {[catalog_tags |-> {}, schema_tags |-> {},
                    table_tags |-> {TableTag(t.table_catalog, t.table_schema, t.table_name, <<"p">>, <<"A">>) :
                                      t \in tagged},
                    tables |-> tables,
                    columns |-> {[table_catalog |-> t.table_catalog, table_schema |-> t.table_schema,
                                  table_name |-> t.table_name, column_name |-> col] :
                                      t \in tables, col \in {<<"j">>, <<"k">>}}] :
                      tables \in SUBSET DottedTables \ {{}}, tagged \in SUBSET DottedTables} :
                        \A b \in m.table_tags :
                            TableRow(b.catalog_name, b.schema_name, b.table_name) \in m.tables}
    /\ user = "alice"
    /\ inflight = [o \in Operators |-> None]
    /\ page = BlankPage

SpecPlanNames ==
    InitPlanNames /\ [][BuildPlan]_vars

-----------------------------------------------------------------------------
(* Properties *)

\* The customer ids a stored rule lists (none for NULL).
IdSet(r) == IF IsNull(r.customer_ids) THEN {} ELSE SeqToSet(Val(r.customer_ids))

\* A rule with this id is stored, its expiration_date is set and not after today.
Deletable(rule_id) ==
    \E r \in rules :
        r.id = rule_id /\ ~IsNull(r.expiration_date) /\ Val(r.expiration_date) <= today

\* C1. delete(id), its warehouse calls not failing, removes the rule and reports
\* success exactly when a rule with that id is stored whose expiration_date is
\* non-null and <= today.  For a rule that is not (NULL expiration, a future
\* expiration, no such id) the stored rules stay as they are, no DELETE audit
\* row is written and the result is failure, not an exception.  Nothing is ever
\* removed, and success never reported, for such a rule, failing calls or not.
C1_DeleteOnlyExpired ==
    [][\A id \in RuleIds, f \in Faults :
        delete_access_rule(id, f) =>
            /\ (Deletable(id) /\ f = "none") =>
                  (result' = "ok" /\ rules' = {r \in rules : r.id # id})
            /\ (result' = "ok" \/ rules' # rules) => Deletable(id)
            /\ ~Deletable(id) =>
                  /\ rules' = rules
                  /\ audit_written' = <<>>
                  /\ f # "primary" => result' = "fail"]_vars

\* A delete that removed its rule and logged DELETE.
C1_Witness ==
    /\ result = "ok"
    /\ calls = <<Call("DELETE", TRUE), Call("AUDIT", TRUE)>>
    /\ rules = {}

\* C2. Every stored rule has expiration_date NULL or after its effective_date.
C2_ExpirationAfterEffective ==
    \A r \in rules :
        IsNull(r.expiration_date) \/ Val(r.expiration_date) > Val(r.effective_date)

\* C3. expire(id) of a stored rule succeeds and logs EXPIRE, and when the rule
\* was already expired its expiration_date is left as it was.
C3_ReExpireIsNoOp ==
    [][\A id \in RuleIds :
        expire_access_rule(id, "none") =>
            \A r \in rules :
                r.id = id =>
                    /\ result' = "ok"
                    /\ Len(audit_written') = 1 /\ audit_written'[1].action_type = "EXPIRE"
                    /\ (~IsNull(r.expiration_date) /\ Val(r.expiration_date) <= today) =>
                          \E q \in rules' :
                              q.id = id /\ q.expiration_date = r.expiration_date]_vars

\* The decision table of the data model for one rule and one customer id.
TableDecision(r, c) ==
    IF r.access_type = "INCLUDE"
    THEN IdSet(r) = {} \/ c \in IdSet(r)
    ELSE IdSet(r) # {} /\ c \notin IdSet(r)

\* What the summary sentence of a rule says about one customer id.
SummaryVisible(r, c) ==
    LET sentence == build_access_summary(r)
    IN  CASE sentence[1] = "Access given as ADMIN, all customers available" -> TRUE
          [] sentence[1] = "Access INCLUDED for" -> c \in IdSet(r)
          [] sentence[1] = "Access EXCLUDED for all customers" -> FALSE
          [] sentence[1] = "Access EXCLUDED for" -> c \notin IdSet(r)
          [] OTHER -> FALSE

\* C4. For every stored rule and customer id, the summary and the id branch of
\* the generated row filter both give the decision of the table: INCLUDE/empty
\* visible, INCLUDE/listed only, EXCLUDE/empty nothing, EXCLUDE/all but listed.
C4_DecisionTable ==
    \A r \in rules, c \in Customers :
        /\ SummaryVisible(r, c) = TableDecision(r, c)
        /\ (FilterIds(r, c) = "T") = TableDecision(r, c)

\* The window of a rule covers day d.
InEffect(r, d) ==
    /\ Val(r.effective_date) <= d
    /\ IsNull(r.expiration_date) \/ Val(r.expiration_date) > d

\* C5. The row filter is TRUE for a customer id exactly when some stored rule
\* has a group the session is a member of, a window covering today, and an id
\* set that is NULL/empty, or INCLUDE with the id listed, or EXCLUDE with the
\* id not listed.
C5_RowFilterMeaning ==
    \A c \in Customers, member_groups \in SUBSET Groups :
        customer_access_filter(c, member_groups) <=>
            \E r \in rules :
                /\ r.group_name \in member_groups
                /\ InEffect(r, today)
                /\ \/ IdSet(r) = {}
                   \/ r.access_type = "INCLUDE" /\ c \in IdSet(r)
                   \/ r.access_type = "EXCLUDE" /\ c \notin IdSet(r)

\* An EXCLUDE rule in effect that lists customer 1: the filter hides 1 and shows 2.
C5_Witness ==
    \E r \in rules :
        /\ r.access_type = "EXCLUDE"
        /\ IdSet(r) = {1}
        /\ InEffect(r, today)
        /\ rules = {r}
        /\ ~customer_access_filter(1, {r.group_name})
        /\ customer_access_filter(2, {r.group_name})

\* C6. On every day d the access matrix and the window of the row filter keep a
\* stored rule exactly when effective_date <= d and expiration_date is NULL or
\* > d; and once expire(id) has run its statement the rule is in effect on
\* neither view today.
C6_InEffectWindow ==
    [][/\ \A r \in rules', d \in 1..(MaxDay + 1) :
              /\ CurrentRule(r, d) = InEffect(r, d)
              /\ (FilterWindow(r, d) = "T") = InEffect(r, d)
       /\ \A id \in RuleIds, f \in Faults :
              (expire_access_rule(id, f) /\ f # "primary") =>
                  \A r \in rules' :
                      r.id = id =>
                          /\ ~CurrentRule(r, today')
                          /\ FilterWindow(r, today') # "T"]_vars

\* A rule that had taken effect was expired today.
C6_Witness ==
    /\ result = "ok"
    /\ calls = <<Call("EXPIRE", TRUE), Call("AUDIT", TRUE)>>
    /\ \E r \in rules :
          /\ Val(r.effective_date) <= today
          /\ r.expiration_date = Some(today)

\* C7. The add form stores a rule only with a non-empty stored group name, a
\* parsed id expression and valid dates; when a check fails it makes no
\* warehouse call and changes neither the rules nor the audit table.
C7_ValidatedBeforeStore ==
    [][\A g \in AccessGroupInputs, i \in AccessIdInputs, t \in AccessTypes, w \in AccessWindows :
        render_add_form(g, i, t, w[1], w[2], <<>>, "none") =>
            /\ rules' # rules =>
                  /\ \A r \in rules' \ rules : r.group_name # <<>>
                  /\ parse_customer_ids(i).valid
                  /\ validate_dates(w[1], w[2]).valid
            /\ (g = <<>> \/ ~parse_customer_ids(i).valid \/ ~validate_dates(w[1], w[2]).valid) =>
                  (calls' = <<>> /\ rules' = rules /\ audit_written' = <<>>)]_vars

\* C8. When a warehouse call of add, update or expire fails, the caller gets a
\* failure result, not an exception.
C8_FaultGivesFailure ==
    (/\ calls # <<>>
     /\ calls[1].stmt \in {"INSERT", "UPDATE", "EXPIRE"}
     /\ \E k \in 1..Len(calls) : ~calls[k].ok)
        => result = "fail"

\* C9. A successful add, update, expire or delete issued its statement first and
\* the audit INSERT second, and wrote exactly one audit row, of its own action
\* type and of object type GROUP_ACCESS; the audit INSERT is never issued before
\* the statement; an operation whose statement failed wrote no audit row.
C9_OneAuditRowPerSuccess ==
    /\ result = "ok" =>
          /\ Len(calls) = 2
          /\ calls[1].stmt \in {"INSERT", "UPDATE", "EXPIRE", "DELETE"}
          /\ calls[1].ok
          /\ calls[2] = Call("AUDIT", TRUE)
          /\ Len(audit_written) = 1
          /\ audit_written[1].action_type = calls[1].stmt
          /\ audit_written[1].object_type = "GROUP_ACCESS"
    /\ \A k \in 1..Len(calls) :
          calls[k].stmt = "AUDIT" => (k = 2 /\ calls[1].stmt # "AUDIT" /\ calls[1].ok)
    /\ (calls # <<>> /\ ~calls[1].ok) => audit_written = <<>>

\* An update that went through and wrote its UPDATE row.
C9_Witness ==
    /\ result = "ok"
    /\ Len(audit_written) = 1
    /\ audit_written[1].action_type = "UPDATE"
    /\ rules # {}

\* C10. Every statement that changed a tag is followed by an audit INSERT: the
\* column-tag statements of apply_propagation as those of apply_table_tag,
\* remove_table_tag and apply_column_tag.
C10_EveryTagStatementAudited ==
    \A k \in 1..Len(calls) :
        (calls[k].stmt \in {"SET_TABLE_TAG", "UNSET_TABLE_TAG", "SET_COLUMN_TAG"} /\ calls[k].ok)
            => (k < Len(calls) /\ calls[k + 1].stmt = "AUDIT")

\* C11. When the statement of an operation ran and its audit INSERT then failed,
\* the operation still reports success to its caller.
C11_AuditFaultStillSuccess ==
    (/\ Len(calls) = 2
     /\ calls[1].ok
     /\ calls[2] = Call("AUDIT", FALSE))
        => result = "ok"

\* The tokens of an id expression: what stands between its commas, blanks at
\* both ends removed, empty ones left out.
RECURSIVE NonEmptyStripped(_)
NonEmptyStripped(parts) ==
    IF parts = <<>> THEN <<>>
    ELSE (IF Strip(Head(parts)) = <<>> THEN <<>> ELSE <<Strip(Head(parts))>>)
         \o NonEmptyStripped(Tail(parts))
Tokens(text) == NonEmptyStripped(Split(text, ","))

\* An optionally signed run of digits, blanks around it allowed.
SignedInteger(t) ==
    LET u == Strip(t)
        body == IF u # <<>> /\ u[1] \in {"+", "-"} THEN Tail(u) ELSE u
    IN  body # <<>> /\ \A i \in 1..Len(body) : body[i] \in Digits
SignedValue(t) ==
    LET u == Strip(t)
    IN  IF u[1] = "-" THEN 0 - DigitsValue(Tail(u))
        ELSE IF u[1] = "+" THEN DigitsValue(Tail(u)) ELSE DigitsValue(u)

\* A token start-end: the texts before and after its first dash.
IsRangeToken(t) == Contains(t, "-")
RangeStart(t) == SubSeq(t, 1, FirstIndex(t, "-") - 1)
RangeEnd(t) == SubSeq(t, FirstIndex(t, "-") + 1, Len(t))

\* A token of the grammar: an unsigned integer, or start-end with start <= end.
WellFormedToken(t) ==
    \/ IsDigits(t)
    \/ /\ IsRangeToken(t)
       /\ IsDigits(Strip(RangeStart(t))) /\ IsDigits(Strip(RangeEnd(t)))
       /\ DigitsValue(Strip(RangeStart(t))) <= DigitsValue(Strip(RangeEnd(t)))
\* The integers it names.
NamedIds(t) ==
    IF IsRangeToken(t)
    THEN DigitsValue(Strip(RangeStart(t)))..DigitsValue(Strip(RangeEnd(t)))
    ELSE {DigitsValue(t)}

\* A range whose end is below its start.
ReversedRange(t) ==
    /\ IsRangeToken(t)
    /\ SignedInteger(RangeStart(t)) /\ SignedInteger(RangeEnd(t))
    /\ SignedValue(RangeEnd(t)) < SignedValue(RangeStart(t))
\* A token one of whose integers is not one.
MalformedToken(t) ==
    IF IsRangeToken(t) THEN ~SignedInteger(RangeStart(t)) \/ ~SignedInteger(RangeEnd(t))
    ELSE ~SignedInteger(t)

Parsed == ~IsNull(args) /\ args.fn = "parse_customer_ids" /\ ~IsNull(ret)

\* C12. parse_customer_ids on a text whose tokens are all of the grammar returns
\* success with exactly the integers its tokens name, each once, ascending; on
\* an empty or blank text it returns success with no id; and every id of a
\* successful result is non-negative.
C12_ParseNamesExactly ==
    Parsed =>
        LET text == args.customer_ids_str
            out == Val(ret)
            toks == Tokens(text)
        IN  /\ (\A i \in 1..Len(toks) : WellFormedToken(toks[i])) =>
                  /\ out.valid
                  /\ SeqToSet(out.value) = UNION {NamedIds(toks[i]) : i \in 1..Len(toks)}
                  /\ \A i \in 1..(Len(out.value) - 1) : out.value[i] < out.value[i + 1]
            /\ Strip(text) = <<>> => (out.valid /\ out.value = <<>>)
            /\ out.valid => \A i \in 1..Len(out.value) : out.value[i] >= 0

\* "1, 3-5,01" parsed to 1, 3, 4, 5.
C12_Witness ==
    /\ Parsed
    /\ args.customer_ids_str = <<"1", ",", "3", "-", "5", ",", "0", "1">>
    /\ Val(ret) = [valid |-> TRUE, value |-> <<1, 3, 4, 5>>]

\* C13. parse_customer_ids fails, with an error text and no id list, whenever a
\* token is a range with end < start or has a malformed integer, whatever the
\* tokens before and after it; when the first such token is a range with
\* end < start the error names that token.
C13_ParseStopsAtFirstError ==
    Parsed =>
        LET out == Val(ret)
            toks == Tokens(args.customer_ids_str)
            bad == {i \in 1..Len(toks) : ReversedRange(toks[i]) \/ MalformedToken(toks[i])}
        IN  bad # {} =>
                /\ ~out.valid
                /\ Len(out.value) = 2
                /\ out.value[1] \in {"Invalid range", "Invalid customer ID format"}
                /\ LET first == CHOOSE i \in bad : \A j \in bad : i <= j
                   IN  IF ReversedRange(toks[first])
                       THEN out.value = <<"Invalid range", toks[first]>>
                       ELSE out.value[1] = "Invalid customer ID format"

\* "1,5-3,x": valid token, reversed range, malformed token; the error names 5-3.
C13_Witness ==
    /\ Parsed
    /\ args.customer_ids_str = <<"1", ",", "5", "-", "3", ",", "x">>
    /\ Val(ret) = [valid |-> FALSE, value |-> <<"Invalid range", <<"5", "-", "3">>>>]

\* C14. The ids of a successful parse, written as the edit form writes them and
\* parsed again, give the same list; and normalize_customer_ids of a normalized
\* list is that list.
C14_RoundTrip ==
    /\ (Parsed /\ Val(ret).valid) =>
          parse_customer_ids(RenderIds(Val(ret).value)) = Val(ret)
    /\ (~IsNull(args) /\ args.fn = "normalize_customer_ids" /\ ~IsNull(ret)) =>
          normalize_customer_ids(Val(ret)) = Val(ret)

\* The ids 3, 4, 5 came back from the text the edit form wrote for them.
C14_Witness ==
    /\ Parsed
    /\ args.customer_ids_str = <<"3", ",", " ", "4", ",", " ", "5">>
    /\ Val(ret) = [valid |-> TRUE, value |-> <<3, 4, 5>>]

\* C15. validate_dates(e, x) fails exactly when x is present and x <= e.
C15_ValidateDates ==
    (~IsNull(args) /\ args.fn = "validate_dates" /\ ~IsNull(ret)) =>
        (~Val(ret).valid <=>
            (~IsNull(args.expiration_date) /\ Val(args.expiration_date) <= args.effective_date))

\* validate_dates refused an expiration on the effective date.
C15_Witness ==
    /\ ~IsNull(args) /\ args.fn = "validate_dates" /\ ~IsNull(ret)
    /\ args.expiration_date = Some(args.effective_date)
    /\ ~Val(ret).valid

\* What is typed in the Group Name and Customer ID fields; the Status choices.
GroupFilterInputs == {<<>>, <<"a">>}
CustomerIdFilterInputs == {<<>>, <<"0">>, <<"1">>}
StatusFilterInputs == {"all", "active", "expired"}

\* C16. For every choice of sidebar filters, get_access_rules returns exactly
\* the stored rules that pass each filter given (group name equal; active:
\* expiration NULL or > today, expired: expiration <= today; the customer id,
\* 0 included, listed in the rule's ids), ordered by group name ascending and
\* then effective date descending.
C16_ListFilters ==
    \A g \in GroupFilterInputs, c \in CustomerIdFilterInputs, st \in StatusFilterInputs :
        LET expected ==
                {r \in rules :
                    /\ g # <<>> => r.group_name = g
                    /\ st = "active" =>
                          (IsNull(r.expiration_date) \/ Val(r.expiration_date) > today)
                    /\ st = "expired" =>
                          (~IsNull(r.expiration_date) /\ Val(r.expiration_date) <= today)
                    /\ c # <<>> => DigitsValue(c) \in IdSet(r)}
        IN  \A s \in get_access_rules(build_filters(g, c, st)) :
                /\ SeqToSet(s) = expected
                /\ Len(s) = Cardinality(expected)
                /\ \A i, j \in 1..Len(s) :
                      i < j =>
                          \/ TextLess(s[i].group_name, s[j].group_name)
                          \/ /\ s[i].group_name = s[j].group_name
                             /\ Val(s[i].effective_date) >= Val(s[j].effective_date)

Planned == ~IsNull(ret) /\ args.fn = "build_propagation_plan"

\* The categories a tag value declares.
Categories(tag_value) == SeqToSet(Tokens(tag_value))

\* A tag row of the parent tag that the targets of the call leave in.
InTarget(row, has_schema) ==
    /\ row.tag_name = args.parent_tag_name
    /\ ~IsNull(args.target_catalog) => row.catalog_name = Val(args.target_catalog)
    /\ (has_schema /\ ~IsNull(args.target_schema)) => row.schema_name = Val(args.target_schema)

\* The categories of the bindings of each scope that cover a table.
CatalogCategories(tbl) ==
    UNION {Categories(row.tag_value) : row \in
        {b \in metadata.catalog_tags :
            InTarget(b, FALSE) /\ b.catalog_name = tbl.table_catalog}}
SchemaCategories(tbl) ==
    UNION {Categories(row.tag_value) : row \in
        {b \in metadata.schema_tags :
            /\ InTarget(b, TRUE)
            /\ b.catalog_name = tbl.table_catalog /\ b.schema_name = tbl.table_schema}}
TableCategories(tbl) ==
    UNION {Categories(row.tag_value) : row \in
        {b \in metadata.table_tags :
            /\ InTarget(b, TRUE)
            /\ b.catalog_name = tbl.table_catalog /\ b.schema_name = tbl.table_schema
            /\ b.table_name = tbl.table_name}}

\* Some binding covers the table.
CoveredAt(tbl) ==
    {k \in 1..3 :
        \/ k = 1 /\ \E b \in metadata.catalog_tags :
                        InTarget(b, FALSE) /\ b.catalog_name = tbl.table_catalog
        \/ k = 2 /\ \E b \in metadata.schema_tags :
                        /\ InTarget(b, TRUE)
                        /\ b.catalog_name = tbl.table_catalog
                        /\ b.schema_name = tbl.table_schema
        \/ k = 3 /\ \E b \in metadata.table_tags :
                        /\ InTarget(b, TRUE)
                        /\ b.catalog_name = tbl.table_catalog
                        /\ b.schema_name = tbl.table_schema
                        /\ b.table_name = tbl.table_name}
Discovered == {tbl \in metadata.tables : CoveredAt(tbl) # {}}
AllCategories(tbl) == CatalogCategories(tbl) \cup SchemaCategories(tbl) \cup TableCategories(tbl)

\* C17. After a run of build_propagation_plan, tables_to_process has one entry
\* for each table some binding covers and no other, and the entry of a table
\* holds the union of the categories (stripped, non-empty comma-separated
\* tokens of the tag value) of all catalog, schema and table bindings covering it.
C17_CategoriesAreUnion ==
    Planned =>
        LET d == Val(ret).tables_to_process
        IN  /\ {d[i].key : i \in 1..Len(d)} = {TableKey(tbl) : tbl \in Discovered}
            /\ Len(d) = Cardinality(Discovered)
            /\ \A i \in 1..Len(d), tbl \in Discovered :
                  d[i].key = TableKey(tbl) => d[i].types = AllCategories(tbl)

\* Catalog c carries B, table c.s.t carries A: the table ends with both.
C17_Witness ==
    /\ Planned
    /\ metadata.catalog_tags = {CatalogTag(<<"c">>, <<"p">>, <<"B">>)}
    /\ metadata.schema_tags = {}
    /\ TableTag(<<"c">>, <<"s">>, <<"t">>, <<"p">>, <<"A">>) \in metadata.table_tags
    /\ \E i \in 1..Len(Val(ret).tables_to_process) :
          /\ Val(ret).tables_to_process[i].key = FullName(<<"c">>, <<"s">>, <<"t">>)
          /\ Val(ret).tables_to_process[i].types = {<<"A">>, <<"B">>}

\* The tables that are to get an action.
Qualifying ==
    {tbl \in Discovered :
        /\ args.required_parent_tag \in AllCategories(tbl)
        /\ \E c \in metadata.columns :
              /\ c.table_catalog = tbl.table_catalog /\ c.table_schema = tbl.table_schema
              /\ c.table_name = tbl.table_name /\ c.column_name = args.column_name}

\* C18. The returned plan has exactly one action for each discovered table whose
\* categories contain the required one and which has the column, none for any
\* other table, and each action carries the column name, tag name and tag
\* value of the call.
C18_OneActionPerQualifyingTable ==
    Planned =>
        LET actions == Val(ret).actions
        IN  /\ {actions[i].table_fqn : i \in 1..Len(actions)} = {TableKey(tbl) : tbl \in Qualifying}
            /\ Len(actions) = Cardinality(Qualifying)
            /\ \A i \in 1..Len(actions) :
                  /\ actions[i].column_name = args.column_name
                  /\ actions[i].tag_name = args.column_tag_name
                  /\ actions[i].tag_value = args.column_tag_value
                  /\ actions[i].sql = [table |-> quote_fqn(SplitFqn(actions[i].table_fqn)),
                                        column |-> quote_identifier(args.column_name),
                                       tag_name |-> args.column_tag_name,
                                       tag_value |-> args.column_tag_value]

\* Schema c.s carries "A,B", B is required, c.s.t has the column and c.s.u has
\* not: two tables discovered, one action, for c.s.t.
C18_Witness ==
    /\ Planned
    /\ args.required_parent_tag = <<"B">>
    /\ metadata.catalog_tags = {}
    /\ metadata.schema_tags = {SchemaTag(<<"c">>, <<"s">>, <<"p">>, <<" ", "A", ",", "B">>)}
    /\ Len(Val(ret).tables_to_process) = 2
    /\ Len(Val(ret).actions) = 1
    /\ Val(ret).actions[1].table_fqn = FullName(<<"c">>, <<"s">>, <<"t">>)

\* C19. When a target catalog or a target schema is given, every action of the
\* plan is for a table of that catalog and of that schema.
C19_PlanInsideTarget ==
    Planned =>
        \A i \in 1..Len(Val(ret).actions) :
            \E tbl \in metadata.tables :
                /\ TableKey(tbl) = Val(ret).actions[i].table_fqn
                /\ ~IsNull(args.target_catalog) => tbl.table_catalog = Val(args.target_catalog)
                /\ ~IsNull(args.target_schema) => tbl.table_schema = Val(args.target_schema)

\* The first scope at which a table is discovered: 1 catalog, 2 schema, 3 table.
FirstScope(table_fqn) ==
    LET tbl == CHOOSE t \in metadata.tables : TableKey(t) = table_fqn
    IN  CHOOSE k \in CoveredAt(tbl) : \A j \in CoveredAt(tbl) : k <= j

\* C20. With the metadata and the arguments unchanged, a second run of
\* build_propagation_plan returns the actions of the first in the same order;
\* and the tables of a plan come in the order of the scope that discovers them
\* first: catalog bindings, then schema bindings, then table bindings.
C20_PlanDeterministic ==
    [][~IsNull(ret') =>
          LET actions == Val(ret').actions
          IN  /\ \A i, j \in 1..Len(actions) :
                    i < j => FirstScope(actions[i].table_fqn) <= FirstScope(actions[j].table_fqn)
              /\ ~IsNull(ret) => actions = Val(ret).actions]_vars


\* A rule with this id is stored.
Stored(rule_id) == \E r \in rules : r.id = rule_id

\* C26. update(id, ...) and expire(id) report success and write an audit row
\* only when a rule with that id is stored; for an id that is not (never added,
\* or deleted) the store is unchanged, no success is reported and no audit row
\* is written.
C26_MissingIdNotReported ==
    [][\A id \in RuleIds, f \in Faults :
        (\/ expire_access_rule(id, f)
         \/ \E g \in GroupInputs, t \in TypeInputs, e \in EffectiveDates,
               x \in ExpirationDates : update_access_rule(id, g, <<1>>, t, e, x, Some(<<>>), f))
        => (~Stored(id) => /\ rules' = rules
                           /\ result' # "ok"
                           /\ audit_written' = <<>>)]_vars


\* C22. When one statement of apply fails, every later action is still
\* attempted, and apply returns the statements that succeeded: the call comes
\* back (it does not raise) having tried each planned action.
C22_ApplyContinuesAfterFailure ==
    [][\A p \in Plans(MaxPlan) : \A fault_at \in 1..Len(p) :
        (DistinctTables(p) /\ apply_propagation(p, fault_at))
        => /\ Len(calls') = Len(p)
           /\ result' = "ok"
           /\ column_tags' = Executed(column_tags,
                                      SelectSeq(p, LAMBDA a : a # p[fault_at]), Len(p) - 1)]_vars


\* C21. With dry_run = true the Propagate Tags section never calls
\* execute_update; with dry_run = false, once Apply Tags is pressed, it calls
\* execute_update exactly once per planned action, with that action's
\* statement, in plan order.
C21_ApplyOncePerAction ==
    [][/\ \A a \in PlanCalls :
            render_propagation(TRUE, a, TRUE, FALSE, 0) => calls' = <<>>
       /\ PressApplyTags =>
            calls' = [i \in 1..Len(Val(ret).actions) |->
                        [stmt |-> "SET_COLUMN_TAG", ok |-> TRUE,
                         sql |-> Val(ret).actions[i].sql]]]_vars


\* The membership query completed and is_admin in its row is true.
Granted(outcome) ==
    /\ ~outcome.raised
    /\ outcome.rows # <<>>
    /\ outcome.rows[1].is_admin = Some(TRUE)

\* C23. The admin check is true only when the membership query completed with
\* a true is_admin; a failing query or an empty result gives false.  A run of
\* the page whose check gave false stops there: it lists nothing, issues no
\* statement, writes no audit row and leaves the store as it was.
C23_AdminCheckFailsClosed ==
    [][\A outcome \in AdminQueryOutcomes, press \in Presses, fault \in Faults :
        render_group_access(outcome, press, fault) =>
            /\ check_admin_access(outcome) = Granted(outcome)
            /\ page'.denied = ~Granted(outcome)
            /\ ~Granted(outcome) =>
                  /\ IsNull(page'.rules)
                  /\ calls' = <<>>
                  /\ audit_written' = <<>>
                  /\ UNCHANGED <<rules, nextId, table_tags, column_tags>>]_vars

\* A rule is stored and the last run, its membership query having failed, was
\* denied: it listed nothing and issued nothing.
C23_Witness ==
    /\ rules # {}
    /\ page.denied /\ page.check_failed
    /\ IsNull(page.rules)
    /\ calls = <<>>


\* The whole name matches [A-Za-z_][A-Za-z0-9_]*.
SafeTagName(tag_name) ==
    /\ tag_name # <<>>
    /\ IdentifierStart(tag_name[1])
    /\ \A i \in 2..Len(tag_name) : IdentifierChar(tag_name[i])

\* C24. apply_table_tag, remove_table_tag and apply_column_tag, given a tag
\* name that does not match [A-Za-z_][A-Za-z0-9_]*, return a failure and make
\* no external call: no statement runs, no audit row is written, no tag changes.
C24_UnsafeTagNameRejected ==
    [][\A n \in AnyTagNameInputs, v \in TagValueInputs, f \in Faults :
        (/\ ~SafeTagName(n)
         /\ \/ apply_table_tag(<<"c">>, <<"s">>, <<"t">>, n, v, f)
            \/ remove_table_tag(<<"c">>, <<"s">>, <<"t">>, n, f)
            \/ apply_column_tag(<<"c">>, <<"s">>, <<"t">>, <<"k">>, n, v, f))
        => /\ result' = "fail"
           /\ calls' = <<>>
           /\ audit_written' = <<>>
           /\ UNCHANGED <<table_tags, column_tags>>]_vars


\* Every rule of the store but the one with this id is in the store afterwards,
\* and no rule was added or removed.
OthersUntouched(rule_id) ==
    /\ \A r \in rules : r.id # rule_id => r \in rules'
    /\ {r.id : r \in rules'} = {r.id : r \in rules}
    /\ Cardinality(rules') = Cardinality(rules)

\* C25. expire(id) changes only expiration_date, modified_by and modified_at
\* of the rule with that id: its group_name, customer_ids, access_type,
\* effective_date, notes, id, created_by and created_at stay, and every other
\* rule is unchanged.  update(id, ...) never changes id, created_by or
\* created_at and never touches another rule.
C25_ExpireAndUpdateFrame ==
    [][\A id \in 1..MaxAccessRules :
        /\ expire_access_rule(id, "none") =>
            /\ OthersUntouched(id)
            /\ \A r \in rules : r.id = id =>
                 [r EXCEPT !.expiration_date = Some(today),
                           !.modified_by = user,
                           !.modified_at = today] \in rules'
        /\ (\E g \in {<<"b">>}, n \in {<<"n">>} :
               update_access_rule(id, g, <<2>>, "EXCLUDE", 2, None, Some(n), "none")) =>
            /\ OthersUntouched(id)
            /\ \A r \in rules : r.id = id =>
                 \E q \in rules' :
                    /\ q.id = id
                    /\ q.created_by = r.created_by
                    /\ q.created_at = r.created_at]_vars

\* Two rules entered by alice on day 1; on day 2 bob expired rule 1 after an
\* update of it: rule 2 is as entered, rule 1 keeps its creator and creation day.
C25_Witness ==
    /\ today = 2
    /\ result = "ok"
    /\ calls = <<Call("EXPIRE", TRUE), Call("AUDIT", TRUE)>>
    /\ \E r, q \in rules :
        /\ r.id = 1 /\ q.id = 2
        /\ r.created_by = "alice" /\ r.created_at = 1
        /\ r.modified_by = "bob" /\ r.modified_at = 2
        /\ r.expiration_date = Some(2) /\ r.notes = Some(<<"n">>)
        /\ q.modified_by = "alice" /\ q.modified_at = 1 /\ IsNull(q.expiration_date)


\* C27. Whatever the interleaving of two operators' updates, expires and
\* deletes of the same rule, a step that removes a rule finds it with a
\* non-null expiration_date <= today (the DELETE statement tests and removes
\* at once), and an update's statement leaves the rule with that update's
\* values whatever was written before it (the last write wins).
C27_InterleavedRemovalOnlyExpired ==
    [][/\ \A r \in rules :
            (\A q \in rules' : q.id # r.id) =>
                ~IsNull(r.expiration_date) /\ Val(r.expiration_date) <= today
       /\ (ExecuteStatement /\ Val(inflight[user]).op = "UPDATE") =>
            \A q \in rules' :
                q.id = Val(inflight[user]).id =>
                    /\ q.expiration_date = Val(inflight[user]).expiration_date
                    /\ q.notes = Some(<<"n">>)
                    /\ q.modified_by = user /\ q.modified_at = today]_vars

\* Bob pressed Delete for the listed rule 1; before his statement ran, alice's
\* Delete removed the rule: bob's run is still under way and the store is empty.
C27_Witness ==
    /\ user = "alice"
    /\ rules = {}
    /\ calls = <<Call("DELETE", TRUE)>>
    /\ ~IsNull(inflight["alice"]) /\ Val(inflight["alice"]).executed
    /\ inflight["bob"] = Some(Pressed("DELETE", 1, None))


\* The rule is listed under this status filter, no other filter set.
ListedAs(r, status) == ListWhere(r, build_filters(<<>>, <<>>, status)) = "T"

\* C29. Every stored rule is listed under exactly one of the statuses active
\* (expiration_date NULL or > today) and expired (expiration_date <= today);
\* the rules delete can remove are exactly those listed as expired; and a rule
\* listed as expired is listed as active after a step only when that step ran
\* an UPDATE of the edit form: the passing of a day, an expire or a failed
\* call never brings it back.
C29_StatusPartition ==
    [][/\ \A r \in rules' :
            /\ ListedAs(r, "active")' # ListedAs(r, "expired")'
            /\ ListedAs(r, "active")' =
                  (IsNull(r.expiration_date) \/ Val(r.expiration_date) > today')
            /\ ListedAs(r, "expired")' = (DeleteWhere(r, r.id) = "T")'
       /\ \A r \in rules, q \in rules' :
            (r.id = q.id /\ ListedAs(r, "expired") /\ ListedAs(q, "active")') =>
                calls'[1] = Call("UPDATE", TRUE)
       /\ \A r \in rules, q \in rules' :
            (r.id = q.id /\ ListedAs(r, "active") /\ ListedAs(q, "expired")'
             /\ q.expiration_date = r.expiration_date) => today' > today]_vars

\* A rule entered on day 1 to expire on day 2, untouched since: day 2 has come
\* and it is listed as expired.
C29_Witness ==
    /\ today = 2
    /\ \E r \in rules :
        /\ r.expiration_date = Some(2)
        /\ r.modified_at = 1
        /\ ListedAs(r, "expired")
        /\ ~ListedAs(r, "active")


\* The decision of one rule alone: its WHERE clause is TRUE for the id.
Grants(r, c, member_groups, day) == FilterWhere(r, c, member_groups, day) = "T"

\* C30. The row filter is the disjunction of the rules' own decisions, so a
\* rule added to the store, an EXCLUDE rule too, takes no id away that a rule
\* in effect grants: what was visible before the rule was added is visible after.
C30_AddingRuleKeepsVisibility ==
    [][\A c \in Customers, member_groups \in SUBSET Groups :
        /\ customer_access_filter(c, member_groups)' =
              (\E r \in rules' : Grants(r, c, member_groups, today'))
        /\ (today' = today /\ rules \subseteq rules' /\ customer_access_filter(c, member_groups))
              => customer_access_filter(c, member_groups)']_vars

\* Group a has an INCLUDE rule and an EXCLUDE rule, both in effect and both
\* listing customer 1: a member of a sees customer 1.
C30_Witness ==
    /\ \E r, q \in rules :
        /\ r.group_name = <<"a">> /\ q.group_name = <<"a">>
        /\ r.access_type = "INCLUDE" /\ q.access_type = "EXCLUDE"
        /\ r.customer_ids = Some(<<1>>) /\ q.customer_ids = Some(<<1>>)
        /\ r.id < q.id
        /\ InEffect(r, today) /\ InEffect(q, today)
    /\ customer_access_filter(1, {<<"a">>})


NamesOf(tbl) == <<tbl.table_catalog, tbl.table_schema, tbl.table_name>>

\* C28. Splitting the key of a discovered table gives back its catalog, schema
\* and table names, also when a name holds a dot, so each planned action is for
\* a discovered table and its ALTER TABLE statement names that table, and each
\* qualifying table is named by the statement of an action.
C28_SplitReturnsNames ==
    Planned =>
        LET actions == Val(ret).actions
        IN  /\ \A tbl \in Discovered : SplitFqn(TableKey(tbl)) = NamesOf(tbl)
            /\ \A i \in 1..Len(actions) :
                  \E tbl \in Discovered :
                      /\ TableKey(tbl) = actions[i].table_fqn
                      /\ Resolve(actions[i].sql.table) = NamesOf(tbl)
            /\ \A tbl \in Qualifying :
                  \E i \in 1..Len(actions) : Resolve(actions[i].sql.table) = NamesOf(tbl)

\* The same for tables whose only dot is in the table name.
C28_DotInTableNameOnly ==
    (Planned /\ \A tbl \in metadata.tables :
                    ~Contains(tbl.table_catalog, ".") /\ ~Contains(tbl.table_schema, "."))
    => C28_SplitReturnsNames

====
